---- MODULE Spec2Model ----
(***************************************************************************)
(* A model of three parts of the Sia node:                                 *)
(*   - the consensus transaction validator (consensus/validtransaction.go) *)
(*   - the wallet transaction builder (modules/wallet/transactionbuilder.go)*)
(*   - the contract manager's persistence                                  *)
(*     (modules/host/contractmanager/persist.go)                           *)
(* Each part has its own specification over the shared variable list; the  *)
(* variables of the other parts stay at their initial values.              *)
(***************************************************************************)
EXTENDS Integers, Sequences, FiniteSets, TLC

VARIABLES
    state,      \* consensus.State: height, siacoinOutputs, siafundOutputs, fileContracts, currentPath
    txn,        \* the types.Transaction handed to the validator
    call,       \* the last validator call: [fn, err, ran]
    prev,       \* the validator call before it (same state and transaction)
    wallet,     \* the Wallet: database buckets, keys, seed progress, unconfirmed transactions
    builders,   \* the transactionBuilders of the wallet, by name
    ret,        \* the last builder call and what it returned: [op, b, arg, err]
    selected,   \* history: per builder, the outputs its Fund* calls selected and
                \* reserved since its last Drop, with the height of the call
    ncalls      \* the number of builder calls made

vars == <<state, txn, call, prev, wallet, builders, ret, selected, ncalls>>
vvars == <<state, txn, call, prev>>
wvars == <<wallet, builders, ret, selected, ncalls>>

(***************************************************************************)
(* Bounds of the model.                                                    *)
(***************************************************************************)
MaxHeight == 2
MaxTxnItems == 3
MaxWalletHeight == 2
MaxCalls == 4
MaxBuilderCalls == 3
MaxPublicKeys == 3
MaxSecretKeys == 2
MaxAddCalls == 2
MaxSignCalls == 2
MaxLockCalls == 4
MaxPersistCalls == 5

(***************************************************************************)
(* General helpers.                                                        *)
(***************************************************************************)
nil == "nil"

RECURSIVE SumSeq(_)
SumSeq(q) == IF q = <<>> THEN 0 ELSE Head(q) + SumSeq(Tail(q))

Values(q) == [i \in 1..Len(q) |-> q[i].Value]

\* The first element of a sequence of errors that is not nil, nil if none.
RECURSIVE FirstError(_)
FirstError(q) ==
    IF q = <<>> THEN nil
    ELSE IF Head(q) # nil THEN Head(q) ELSE FirstError(Tail(q))

(***************************************************************************)
(* Types of the consensus package used by the validator.                   *)
(***************************************************************************)
\* UnlockConditions.UnlockHash(): the hash of the canonical encoding; a
\* collision-free hash is an injective function of the encoded fields.
UnlockHash(uc) == <<"uh", uc.Timelock, uc.PublicKeys, uc.SignaturesRequired>>

\* FileContract.Tax(): the siafund fee, a fixed function of the payout
\* (Tax(1000) = 40).
Tax(fc) == (fc.Payout * 4) \div 100

SegmentSize == 64

\* crypto.CalculateSegments: ceil(fileSize / SegmentSize).
CalculateSegments(fileSize) == (fileSize + SegmentSize - 1) \div SegmentSize

EmptyTransaction ==
    [ SiacoinInputs |-> <<>>, SiacoinOutputs |-> <<>>, MinerFees |-> <<>>,
      FileContracts |-> <<>>, FileContractTerminations |-> <<>>,
      StorageProofs |-> <<>>, SiafundInputs |-> <<>>, SiafundOutputs |-> <<>>,
      TransactionSignatures |-> <<>> ]

\* State.height(): the index of the last block of the current path.
height(s) == s.height

(***************************************************************************)
(* consensus/validtransaction.go                                           *)
(***************************************************************************)
ErrMissingSiacoinOutput == "transaction spends a nonexisting siacoin output"
ErrMissingFileContract == "transaction terminates a nonexisting file contract"
ErrMissingSiafundOutput == "transaction spends a nonexisting siafund output"
ErrSPSiacoinOutputs == "transaction contains storage proofs and siacoin outputs"
ErrSPFileContracts == "transaction contains storage proofs and file contracts"
ErrSPTerminations == "transaction contains storage proofs and file contract terminations"
ErrSPSiafundOutputs == "transaction contains storage proofs and siafund outputs"
ErrUnlockHash == "unlock conditions do not match unlock hash"
ErrTimelock == "unlock condition timelock has not been met"
ErrInputsOutputs == "inputs do not equal outputs for transaction"
ErrContractStart == "contract must start in the future"
ErrContractDuration == "contract duration must be at least one block"
ErrValidProofSum == "contract valid proof outputs do not sum to the payout minus the siafund fee"
ErrMissedProofSum == "contract missed proof outputs do not sum to the payout"
ErrTerminationPayouts == "contract termination has incorrect payouts"
ErrUnknownContract == "unrecognized file contract id"
ErrNoTriggerBlock == "no block found at contract trigger block height"
ErrUnknownContractSP == "unrecognized file contract ID in storage proof"
ErrInvalidProof == "provided storage proof is invalid"
ErrClaimStart == "invalid siafund output presented"
ErrSiafundSum == "siafund inputs do not equal siafund outpus within transaction"

FollowsStorageProofRules_NoTerminations(t) ==
    IF Len(t.StorageProofs) = 0 THEN nil
    ELSE IF Len(t.SiacoinOutputs) # 0 THEN ErrSPSiacoinOutputs
    ELSE IF Len(t.FileContracts) # 0 THEN ErrSPFileContracts
    ELSE IF Len(t.SiafundOutputs) # 0 THEN ErrSPSiafundOutputs
    ELSE nil

FollowsStorageProofRules(t) ==
    IF Len(t.StorageProofs) = 0 THEN nil
    ELSE IF Len(t.SiacoinOutputs) # 0 THEN ErrSPSiacoinOutputs
    ELSE IF Len(t.FileContracts) # 0 THEN ErrSPFileContracts
    ELSE IF Len(t.FileContractTerminations) # 0 THEN ErrSPTerminations
    ELSE IF Len(t.SiafundOutputs) # 0 THEN ErrSPSiafundOutputs
    ELSE nil

SiacoinOutputSum_WithSiafunds(t) ==
    SumSeq(t.MinerFees)
    + SumSeq([i \in 1..Len(t.FileContracts) |-> t.FileContracts[i].Payout])
    + SumSeq(Values(t.SiacoinOutputs))
    + SumSeq(Values(t.SiafundOutputs))

SiacoinOutputSum(t) ==
    SumSeq(t.MinerFees)
    + SumSeq([i \in 1..Len(t.FileContracts) |-> t.FileContracts[i].Payout])
    + SumSeq(Values(t.SiacoinOutputs))

validUnlockConditions_NoTimelock(s, uc, uh) ==
    IF UnlockHash(uc) # uh THEN ErrUnlockHash
    ELSE nil

validUnlockConditions_TimelockFirst(s, uc, uh) ==
    IF uc.Timelock > height(s) THEN ErrTimelock
    ELSE IF UnlockHash(uc) # uh THEN ErrUnlockHash
    ELSE nil

validUnlockConditions(s, uc, uh) ==
    IF UnlockHash(uc) # uh THEN ErrUnlockHash
    ELSE IF uc.Timelock > height(s) THEN ErrTimelock
    ELSE nil

\* The loop of validSiacoins over t.SiacoinInputs from index i on, with the
\* running inputSum: the first error, or the comparison with the output sum.
RECURSIVE validSiacoinsLoop(_, _, _, _)
validSiacoinsLoop(s, t, i, inputSum) ==
    IF i > Len(t.SiacoinInputs)
    THEN IF inputSum # SiacoinOutputSum(t) THEN ErrInputsOutputs ELSE nil
    ELSE LET sci == t.SiacoinInputs[i] IN
         IF sci.ParentID \notin DOMAIN s.siacoinOutputs
         THEN ErrMissingSiacoinOutput
         ELSE LET sco == s.siacoinOutputs[sci.ParentID]
                  err == validUnlockConditions(s, sci.UnlockConditions, sco.UnlockHash)
              IN IF err # nil THEN err
                 ELSE validSiacoinsLoop(s, t, i + 1, inputSum + sco.Value)

validSiacoins(s, t) == validSiacoinsLoop(s, t, 1, 0)

\* validFileContracts with the siafund fee left out of the valid-proof sum.
RECURSIVE validFileContractsLoop_NoTax(_, _, _)
validFileContractsLoop_NoTax(s, t, i) ==
    IF i > Len(t.FileContracts) THEN nil
    ELSE LET fc == t.FileContracts[i] IN
         IF fc.Start <= height(s) THEN ErrContractStart
         ELSE IF fc.Expiration <= fc.Start THEN ErrContractDuration
         ELSE IF SumSeq(Values(fc.ValidProofOutputs)) # fc.Payout THEN ErrValidProofSum
         ELSE IF SumSeq(Values(fc.MissedProofOutputs)) # fc.Payout THEN ErrMissedProofSum
         ELSE validFileContractsLoop_NoTax(s, t, i + 1)

validFileContracts_NoTax(s, t) == validFileContractsLoop_NoTax(s, t, 1)

RECURSIVE validFileContractsLoop(_, _, _)
validFileContractsLoop(s, t, i) ==
    IF i > Len(t.FileContracts) THEN nil
    ELSE LET fc == t.FileContracts[i]
             validProofOutputSum == SumSeq(Values(fc.ValidProofOutputs))
             missedProofOutputSum == SumSeq(Values(fc.MissedProofOutputs))
             outputPortion == fc.Payout - Tax(fc)
         IN IF fc.Start <= height(s) THEN ErrContractStart
            ELSE IF fc.Expiration <= fc.Start THEN ErrContractDuration
            ELSE IF validProofOutputSum # outputPortion THEN ErrValidProofSum
            ELSE IF missedProofOutputSum # fc.Payout THEN ErrMissedProofSum
            ELSE validFileContractsLoop(s, t, i + 1)

validFileContracts(s, t) == validFileContractsLoop(s, t, 1)

\* validFileContractTerminations without the check of the payouts.
RECURSIVE validFileContractTerminationsLoop_NoPayouts(_, _, _)
validFileContractTerminationsLoop_NoPayouts(s, t, i) ==
    IF i > Len(t.FileContractTerminations) THEN nil
    ELSE LET fct == t.FileContractTerminations[i] IN
         IF fct.ParentID \notin DOMAIN s.fileContracts THEN ErrMissingFileContract
         ELSE LET fc == s.fileContracts[fct.ParentID]
                  err == validUnlockConditions(s, fct.TerminationConditions, fc.TerminationHash)
              IN IF err # nil THEN err
                 ELSE validFileContractTerminationsLoop_NoPayouts(s, t, i + 1)

validFileContractTerminations_NoPayouts(s, t) ==
    validFileContractTerminationsLoop_NoPayouts(s, t, 1)

RECURSIVE validFileContractTerminationsLoop(_, _, _)
validFileContractTerminationsLoop(s, t, i) ==
    IF i > Len(t.FileContractTerminations) THEN nil
    ELSE LET fct == t.FileContractTerminations[i] IN
         IF fct.ParentID \notin DOMAIN s.fileContracts THEN ErrMissingFileContract
         ELSE LET fc == s.fileContracts[fct.ParentID]
                  err == validUnlockConditions(s, fct.TerminationConditions, fc.TerminationHash)
                  payoutSum == SumSeq(Values(fct.Payouts))
              IN IF err # nil THEN err
                 ELSE IF payoutSum # fc.Payout THEN ErrTerminationPayouts
                 ELSE validFileContractTerminationsLoop(s, t, i + 1)

validFileContractTerminations(s, t) == validFileContractTerminationsLoop(s, t, 1)

\* The largest value of a BlockHeight: what 0 - 1 wraps to.
MaxBlockHeight == 2147483647

ErrPanicDivideByZero == "panic: division by zero"

\* The number a file contract ID stands for in the hash below.
IDNumber(fcid) == CASE fcid = "fc1" -> 1 [] fcid = "fc2" -> 2 [] OTHER -> 3

\* The big-endian value of crypto.HashBytes(triggerID || fcid): a fixed
\* function of the two identifiers.
SeedInt(triggerID, fcid) == triggerID * 31 + IDNumber(fcid) * 17 + 7

\* storageProofSegment: [index, err].
storageProofSegment(s, fcid) ==
    IF fcid \notin DOMAIN s.fileContracts
    THEN [index |-> 0, err |-> ErrUnknownContract]
    ELSE LET fc == s.fileContracts[fcid]
             triggerHeight == IF fc.Start = 0 THEN MaxBlockHeight ELSE fc.Start - 1
         IN IF triggerHeight > height(s)
            THEN [index |-> 0, err |-> ErrNoTriggerBlock]
            ELSE LET triggerID == s.currentPath[triggerHeight]
                     numSegments == CalculateSegments(fc.FileSize)
                 IN IF numSegments = 0
                    THEN [index |-> 0, err |-> ErrPanicDivideByZero]
                    ELSE [index |-> SeedInt(triggerID, fcid) % numSegments, err |-> nil]

\* crypto.VerifySegment: the proof (segment, hash set) rebuilds the Merkle
\* root of one tree at one leaf; it verifies when that is the tree and the
\* leaf asked for.
VerifySegment(segment, hashSet, numSegments, proofIndex, root) ==
    /\ hashSet.index = proofIndex
    /\ hashSet.numSegments = numSegments
    /\ hashSet.root = root
    /\ segment = hashSet.index

RECURSIVE validStorageProofsLoop(_, _, _)
validStorageProofsLoop(s, t, i) ==
    IF i > Len(t.StorageProofs) THEN nil
    ELSE LET sp == t.StorageProofs[i] IN
         IF sp.ParentID \notin DOMAIN s.fileContracts THEN ErrUnknownContractSP
         ELSE LET fc == s.fileContracts[sp.ParentID]
                  seg == storageProofSegment(s, sp.ParentID)
              IN IF seg.err # nil THEN seg.err
                 ELSE IF ~VerifySegment(sp.Segment, sp.HashSet,
                                        CalculateSegments(fc.FileSize),
                                        seg.index, fc.FileMerkleRoot)
                      THEN ErrInvalidProof
                      ELSE validStorageProofsLoop(s, t, i + 1)

validStorageProofs(s, t) == validStorageProofsLoop(s, t, 1)

\* The first loop of validSiafunds: [sum, err].
RECURSIVE validSiafundsInputs(_, _, _, _)
validSiafundsInputs(s, t, i, siafundInputSum) ==
    IF i > Len(t.SiafundInputs) THEN [sum |-> siafundInputSum, err |-> nil]
    ELSE LET sfi == t.SiafundInputs[i] IN
         IF sfi.ParentID \notin DOMAIN s.siafundOutputs
         THEN [sum |-> siafundInputSum, err |-> ErrMissingSiafundOutput]
         ELSE LET sfo == s.siafundOutputs[sfi.ParentID]
                  err == validUnlockConditions(s, sfi.UnlockConditions, sfo.UnlockHash)
              IN IF err # nil THEN [sum |-> siafundInputSum, err |-> err]
                 ELSE validSiafundsInputs(s, t, i + 1, siafundInputSum + sfo.Value)

\* The second loop of validSiafunds: [sum, err].
RECURSIVE validSiafundsOutputs(_, _, _)
validSiafundsOutputs(t, i, siafundOutputSum) ==
    IF i > Len(t.SiafundOutputs) THEN [sum |-> siafundOutputSum, err |-> nil]
    ELSE LET sfo == t.SiafundOutputs[i] IN
         IF sfo.ClaimStart # 0 THEN [sum |-> siafundOutputSum, err |-> ErrClaimStart]
         ELSE validSiafundsOutputs(t, i + 1, siafundOutputSum + sfo.Value)

\* validSiafunds without the check of ClaimStart.
validSiafunds_NoClaimStart(s, t) ==
    LET ins == validSiafundsInputs(s, t, 1, 0) IN
    IF ins.err # nil THEN ins.err
    ELSE IF SumSeq(Values(t.SiafundOutputs)) # ins.sum THEN ErrSiafundSum
    ELSE nil

validSiafunds(s, t) ==
    LET ins == validSiafundsInputs(s, t, 1, 0) IN
    IF ins.err # nil THEN ins.err
    ELSE LET outs == validSiafundsOutputs(t, 1, 0) IN
         IF outs.err # nil THEN outs.err
         ELSE IF outs.sum # ins.sum THEN ErrSiafundSum
         ELSE nil

(***************************************************************************)
(* Signatures.  A secret key is a name; crypto.SignHash and the sighash    *)
(* keep what they were computed from, so that a signature verifies exactly *)
(* for the key and the covered contents it was made with.                  *)
(***************************************************************************)
PublicKey(sk) == <<"pk", sk>>

SignHash(sigHash, sk) == [signer |-> sk, hash |-> sigHash]

VerifyHash(sigHash, pk, sig) ==
    /\ sig # <<>>
    /\ PublicKey(sig.signer) = pk
    /\ sig.hash = sigHash

\* The elements of q at the (zero-based) indices idxs that exist in q.
Pick(q, idxs) ==
    [k \in 1..Len(idxs) |-> IF idxs[k] < Len(q) THEN q[idxs[k] + 1] ELSE <<>>]

Unsigned(sig) == [ParentID |-> sig.ParentID, PublicKeyIndex |-> sig.PublicKeyIndex,
                  CoveredFields |-> sig.CoveredFields]

FieldNames ==
    {"SiacoinInputs", "SiacoinOutputs", "MinerFees", "FileContracts",
     "FileContractTerminations", "StorageProofs", "SiafundInputs", "SiafundOutputs"}

NoFields == [f \in FieldNames |-> <<>>]

\* Transaction.SigHash(i): the hash of the fields that signature i covers:
\* every field but the signatures when WholeTransaction is set, the indexed
\* elements otherwise, and in both cases the indexed signatures.
SigHash(t, i) ==
    LET sig == t.TransactionSignatures[i + 1]
        cf == sig.CoveredFields
    IN [ sig |-> Unsigned(sig),
         fields |-> IF cf.WholeTransaction
                    THEN [f \in DOMAIN cf.fields |-> t[f]]
                    ELSE [f \in DOMAIN cf.fields |-> Pick(t[f], cf.fields[f])],
         sigs |-> Pick(t.TransactionSignatures, cf.TransactionSignatures) ]

ErrInvalidSignature == "InvalidSignature"
ErrMissingSignature == "MissingSignature"
ErrInsufficientSignatures == "InsufficientSignatures"

\* The inputs a signature can refer to: [ParentID, UnlockConditions].
SignedInputs(t) ==
    [i \in 1..Len(t.SiacoinInputs) |->
        [ParentID |-> t.SiacoinInputs[i].ParentID,
         UnlockConditions |-> t.SiacoinInputs[i].UnlockConditions]]
    \o [i \in 1..Len(t.SiafundInputs) |->
        [ParentID |-> t.SiafundInputs[i].ParentID,
         UnlockConditions |-> t.SiafundInputs[i].UnlockConditions]]

\* validSignatures: every signature refers to an input, names one of its
\* public keys and verifies against it; every input has as many signatures
\* by distinct keys as its unlock conditions require.
validSignatures(s, t) ==
    LET ins == SignedInputs(t)
        sigs == t.TransactionSignatures
        InputOf(sig) == {i \in 1..Len(ins) : ins[i].ParentID = sig.ParentID}
        Good(k) ==
            /\ InputOf(sigs[k]) # {}
            /\ LET uc == ins[CHOOSE i \in InputOf(sigs[k]) :
                                \A j \in InputOf(sigs[k]) : i <= j].UnlockConditions
               IN /\ sigs[k].PublicKeyIndex < Len(uc.PublicKeys)
                  /\ VerifyHash(SigHash(t, k - 1),
                                uc.PublicKeys[sigs[k].PublicKeyIndex + 1],
                                sigs[k].Signature)
        KeysFor(i) == {sigs[k].PublicKeyIndex :
                          k \in {k \in 1..Len(sigs) : sigs[k].ParentID = ins[i].ParentID}}
    IN IF \E k \in 1..Len(sigs) : ~Good(k) THEN ErrInvalidSignature
       ELSE IF \E i \in 1..Len(ins) :
                  /\ ins[i].UnlockConditions.SignaturesRequired > 0
                  /\ KeysFor(i) = {}
            THEN ErrMissingSignature
       ELSE IF \E i \in 1..Len(ins) :
                  Cardinality(KeysFor(i)) < ins[i].UnlockConditions.SignaturesRequired
            THEN ErrInsufficientSignatures
       ELSE nil

\* validTransaction with the siafund check moved before the siacoin check.
validTransaction_SiafundsFirst(s, t) ==
    LET e1 == FollowsStorageProofRules(t)
        e2 == validSiafunds(s, t)
        e3 == validSiacoins(s, t)
        e4 == validFileContracts(s, t)
        e5 == validFileContractTerminations(s, t)
        e6 == validStorageProofs(s, t)
        e7 == validSignatures(s, t)
        r1 == <<"FollowsStorageProofRules">>
        r2 == Append(r1, "validSiafunds")
        r3 == Append(r2, "validSiacoins")
        r4 == Append(r3, "validFileContracts")
        r5 == Append(r4, "validFileContractTerminations")
        r6 == Append(r5, "validStorageProofs")
        r7 == Append(r6, "validSignatures")
    IN IF e1 # nil THEN [err |-> e1, ran |-> r1]
       ELSE IF e2 # nil THEN [err |-> e2, ran |-> r2]
       ELSE IF e3 # nil THEN [err |-> e3, ran |-> r3]
       ELSE IF e4 # nil THEN [err |-> e4, ran |-> r4]
       ELSE IF e5 # nil THEN [err |-> e5, ran |-> r5]
       ELSE IF e6 # nil THEN [err |-> e6, ran |-> r6]
       ELSE [err |-> e7, ran |-> r7]

\* validTransaction: [err, ran], the error returned and the checks that ran.
validTransaction(s, t) ==
    LET e1 == FollowsStorageProofRules(t)
        e2 == validSiacoins(s, t)
        e3 == validFileContracts(s, t)
        e4 == validFileContractTerminations(s, t)
        e5 == validStorageProofs(s, t)
        e6 == validSiafunds(s, t)
        e7 == validSignatures(s, t)
        r1 == <<"FollowsStorageProofRules">>
        r2 == Append(r1, "validSiacoins")
        r3 == Append(r2, "validFileContracts")
        r4 == Append(r3, "validFileContractTerminations")
        r5 == Append(r4, "validStorageProofs")
        r6 == Append(r5, "validSiafunds")
        r7 == Append(r6, "validSignatures")
    IN IF e1 # nil THEN [err |-> e1, ran |-> r1]
       ELSE IF e2 # nil THEN [err |-> e2, ran |-> r2]
       ELSE IF e3 # nil THEN [err |-> e3, ran |-> r3]
       ELSE IF e4 # nil THEN [err |-> e4, ran |-> r4]
       ELSE IF e5 # nil THEN [err |-> e5, ran |-> r5]
       ELSE IF e6 # nil THEN [err |-> e6, ran |-> r6]
       ELSE [err |-> e7, ran |-> r7]

(***************************************************************************)
(* The consensus state and the transactions presented to the validator.    *)
(***************************************************************************)
ucA == [Timelock |-> 0, PublicKeys |-> <<PublicKey("skA")>>, SignaturesRequired |-> 1]
ucL == [Timelock |-> 2, PublicKeys |-> <<PublicKey("skL")>>, SignaturesRequired |-> 1]

Contract(start, expiration, valid, missed, terminationHash) ==
    [ Start |-> start, Expiration |-> expiration, Payout |-> 1000,
      FileMerkleRoot |-> "root", FileSize |-> 2 * SegmentSize,
      ValidProofOutputs |-> [i \in 1..Len(valid) |-> [Value |-> valid[i], UnlockHash |-> "host"]],
      MissedProofOutputs |-> [i \in 1..Len(missed) |-> [Value |-> missed[i], UnlockHash |-> "renter"]],
      TerminationHash |-> terminationHash ]

ConsensusState(h) ==
    [ height |-> h,
      currentPath |-> [b \in 0..h |-> 100 + b],
      siacoinOutputs |->
          [id \in {"sco1", "sco2"} |->
              IF id = "sco1" THEN [Value |-> 1000, UnlockHash |-> UnlockHash(ucA)]
              ELSE [Value |-> 60, UnlockHash |-> UnlockHash(ucL)]],
      siafundOutputs |->
          [id \in {"sfo1", "sfo2"} |->
              IF id = "sfo1" THEN [Value |-> 60, UnlockHash |-> UnlockHash(ucA), ClaimStart |-> 0]
              ELSE [Value |-> 2, UnlockHash |-> UnlockHash(ucL), ClaimStart |-> 0]],
      fileContracts |->
          [id \in {"fc1", "fc2"} |->
              IF id = "fc1" THEN Contract(1, 3, <<960>>, <<1000>>, UnlockHash(ucA))
              ELSE Contract(3, 5, <<960>>, <<1000>>, UnlockHash(ucL))] ]

\* The elements a presented transaction is made of, per field.
Choices(f) ==
    CASE f = "SiacoinInputs" ->
           {[ParentID |-> "sco1", UnlockConditions |-> ucA],
            [ParentID |-> "sco1", UnlockConditions |-> ucL],
            [ParentID |-> "sco2", UnlockConditions |-> ucL],
            [ParentID |-> "sco9", UnlockConditions |-> ucA]}
      [] f = "SiacoinOutputs" ->
           {[Value |-> v, UnlockHash |-> "dest"] : v \in {990, 60}}
      [] f = "MinerFees" -> {10}
      [] f = "FileContracts" ->
           {Contract(3, 4, <<900, 60>>, <<1000>>, UnlockHash(ucA)),
            Contract(1, 3, <<900, 60>>, <<1000>>, UnlockHash(ucA)),
            Contract(3, 3, <<900, 60>>, <<1000>>, UnlockHash(ucA)),
            Contract(3, 4, <<900>>, <<1000>>, UnlockHash(ucA)),
            Contract(3, 4, <<900, 60>>, <<900>>, UnlockHash(ucA)),
            Contract(3, 4, <<1000>>, <<1000>>, UnlockHash(ucA))}
      [] f = "FileContractTerminations" ->
           {[ParentID |-> "fc1", TerminationConditions |-> ucA,
             Payouts |-> <<[Value |-> 400, UnlockHash |-> "host"],
                           [Value |-> 600, UnlockHash |-> "renter"]>>],
            [ParentID |-> "fc1", TerminationConditions |-> ucA,
             Payouts |-> <<[Value |-> 400, UnlockHash |-> "host"]>>],
            [ParentID |-> "fc1", TerminationConditions |-> ucL,
             Payouts |-> <<[Value |-> 400, UnlockHash |-> "host"]>>],
            [ParentID |-> "fc2", TerminationConditions |-> ucL,
             Payouts |-> <<[Value |-> 1000, UnlockHash |-> "host"]>>],
            [ParentID |-> "fc9", TerminationConditions |-> ucA,
             Payouts |-> <<[Value |-> 1000, UnlockHash |-> "host"]>>]}
      [] f = "StorageProofs" ->
           {[ParentID |-> id, Segment |-> i,
             HashSet |-> [index |-> i, numSegments |-> 2, root |-> "root"]] :
               id \in {"fc1", "fc9"}, i \in {0, 1}}
           \cup {[ParentID |-> "fc2", Segment |-> 0,
                  HashSet |-> [index |-> 0, numSegments |-> 2, root |-> "root"]]}
      [] f = "SiafundInputs" ->
           {[ParentID |-> "sfo1", UnlockConditions |-> ucA, ClaimUnlockHash |-> "claim"],
            [ParentID |-> "sfo1", UnlockConditions |-> ucL, ClaimUnlockHash |-> "claim"],
            [ParentID |-> "sfo2", UnlockConditions |-> ucL, ClaimUnlockHash |-> "claim"],
            [ParentID |-> "sfo9", UnlockConditions |-> ucA, ClaimUnlockHash |-> "claim"]}
      [] f = "SiafundOutputs" ->
           {[Value |-> 60, UnlockHash |-> "dest", ClaimStart |-> c] : c \in {0, 1}}

TxnItems(t) ==
    Len(t.SiacoinInputs) + Len(t.SiacoinOutputs) + Len(t.MinerFees)
    + Len(t.FileContracts) + Len(t.FileContractTerminations) + Len(t.StorageProofs)
    + Len(t.SiafundInputs) + Len(t.SiafundOutputs) + Len(t.TransactionSignatures)

WholeTransactionFields ==
    [WholeTransaction |-> TRUE, fields |-> NoFields, TransactionSignatures |-> <<>>]

NoCall == [fn |-> "none", err |-> nil, ran |-> <<>>]

InitValidator ==
    /\ \E h \in 0..MaxHeight : state = ConsensusState(h)
    /\ txn = EmptyTransaction
    /\ call = NoCall
    /\ prev = NoCall
    /\ wallet = <<>>
    /\ builders = <<>>
    /\ ret = <<>>
    /\ selected = <<>>
    /\ ncalls = 0

\* The caller puts one more element into the transaction it will present.
AddElement ==
    /\ call = NoCall
    /\ TxnItems(txn) < MaxTxnItems
    /\ \E f \in FieldNames : \E x \in Choices(f) :
          txn' = [txn EXCEPT ![f] = Append(@, x)]
    /\ UNCHANGED <<state, call, prev, wvars>>

\* The caller signs one of the inputs over the whole transaction.
AddSignature ==
    /\ call = NoCall
    /\ TxnItems(txn) < MaxTxnItems
    /\ \E i \in 1..Len(SignedInputs(txn)) : \E sk \in {"skA", "skL"} :
          LET sig == [ParentID |-> SignedInputs(txn)[i].ParentID,
                      PublicKeyIndex |-> 0,
                      CoveredFields |-> WholeTransactionFields,
                      Signature |-> <<>>]
              t1 == [txn EXCEPT !.TransactionSignatures = Append(@, sig)]
              n == Len(t1.TransactionSignatures)
          IN txn' = [t1 EXCEPT !.TransactionSignatures[n].Signature =
                                   SignHash(SigHash(t1, n - 1), sk)]
    /\ UNCHANGED <<state, call, prev, wvars>>

\* validTransaction applied to the state as well: the spent outputs removed.
ValidTransaction_Applies ==
    /\ call.fn \in {"none", "validTransaction"}
    /\ prev = NoCall
    /\ LET r == validTransaction(state, txn) IN
       /\ call' = [fn |-> "validTransaction", err |-> r.err, ran |-> r.ran]
       /\ state' = IF r.err # nil THEN state
                   ELSE [state EXCEPT !.siacoinOutputs =
                           [id \in DOMAIN @ \ {txn.SiacoinInputs[i].ParentID :
                                                  i \in 1..Len(txn.SiacoinInputs)} |-> @[id]]]
    /\ prev' = call
    /\ UNCHANGED <<txn, wvars>>

\* s.validTransaction(t), called at most twice on the same state and
\* transaction.
ValidTransaction ==
    /\ call.fn \in {"none", "validTransaction"}
    /\ prev = NoCall
    /\ LET r == validTransaction(state, txn) IN
       call' = [fn |-> "validTransaction", err |-> r.err, ran |-> r.ran]
    /\ prev' = call
    /\ UNCHANGED <<state, txn, wvars>>

ValidSiacoins ==
    /\ call = NoCall
    /\ call' = [fn |-> "validSiacoins", err |-> validSiacoins(state, txn), ran |-> <<>>]
    /\ UNCHANGED <<state, txn, prev, wvars>>

ValidFileContracts ==
    /\ call = NoCall
    /\ call' = [fn |-> "validFileContracts", err |-> validFileContracts(state, txn), ran |-> <<>>]
    /\ UNCHANGED <<state, txn, prev, wvars>>

ValidFileContractTerminations ==
    /\ call = NoCall
    /\ call' = [fn |-> "validFileContractTerminations",
                err |-> validFileContractTerminations(state, txn), ran |-> <<>>]
    /\ UNCHANGED <<state, txn, prev, wvars>>

ValidStorageProofs ==
    /\ call = NoCall
    /\ call' = [fn |-> "validStorageProofs", err |-> validStorageProofs(state, txn), ran |-> <<>>]
    /\ UNCHANGED <<state, txn, prev, wvars>>

ValidSiafunds ==
    /\ call = NoCall
    /\ call' = [fn |-> "validSiafunds", err |-> validSiafunds(state, txn), ran |-> <<>>]
    /\ UNCHANGED <<state, txn, prev, wvars>>

NextValidator ==
    \/ AddElement
    \/ AddSignature
    \/ ValidTransaction
    \/ ValidSiacoins
    \/ ValidFileContracts
    \/ ValidFileContractTerminations
    \/ ValidStorageProofs
    \/ ValidSiafunds

SpecValidator == InitValidator /\ [][NextValidator]_vars

(***************************************************************************)
(* modules/wallet/transactionbuilder.go                                    *)
(*                                                                         *)
(* The wallet is one record: the buckets of its database transaction       *)
(* (consensus height, siacoin outputs, siafund outputs, spent outputs),    *)
(* its keys, the progress of its primary seed and the unconfirmed          *)
(* transactions it has processed.  A bucket is a sequence of [id, output]  *)
(* in the order the bucket is iterated.  A Fund* call and Drop hold        *)
(* wallet.mu from beginning to end, so each is one step.                   *)
(***************************************************************************)
WalletFieldNames ==
    {"SiacoinInputs", "SiacoinOutputs", "FileContracts", "FileContractRevisions",
     "StorageProofs", "SiafundInputs", "SiafundOutputs", "MinerFees", "ArbitraryData"}

\* types.Transaction{}
EmptyWalletTransaction ==
    [f \in WalletFieldNames \cup {"TransactionSignatures"} |-> <<>>]

\* types.FullCoveredFields
FullCoveredFields ==
    [WholeTransaction |-> TRUE, fields |-> [f \in WalletFieldNames |-> <<>>],
     TransactionSignatures |-> <<>>]

\* Transaction.SiacoinOutputID(i), Transaction.SiafundOutputID(i): the hash of
\* the transaction without its signatures and of the index.
SiacoinOutputID(t, i) == <<"siacoin output", [f \in WalletFieldNames |-> t[f]], i>>
SiafundOutputID(t, i) == <<"siafund output", [f \in WalletFieldNames |-> t[f]], i>>

RespendTimeout == 2
DustThreshold == 10

ErrIncompleteTransactions == "wallet has coins spent in incomplete transactions - not enough remaining coins"
ErrLowBalance == "insufficient balance"
errBuilderAlreadySigned == "sign has already been called on this transaction builder, multiple calls can cause issues"
errDustOutput == "output is too small"
errOutputTimelock == "wallet consensus set height is lower than the output timelock"
errSpendHeightTooHigh == "output spend height exceeds the allowed height"
errCannotSign == "transaction builder added an input that it cannot sign"

\* The zero value a Go map lookup gives for a key that is not in w.keys.
ZeroUnlockConditions == [Timelock |-> 0, PublicKeys |-> <<>>, SignaturesRequired |-> 0]
ZeroSpendableKey == [UnlockConditions |-> ZeroUnlockConditions, SecretKeys |-> <<>>]
KeyOf(w, uh) == IF uh \in DOMAIN w.keys THEN w.keys[uh] ELSE ZeroSpendableKey

\* The unlock conditions and the spendable key of one secret key.
StandardConditions(sk, timelock) ==
    [Timelock |-> timelock, PublicKeys |-> <<PublicKey(sk)>>, SignaturesRequired |-> 1]
StandardKey(sk, timelock) ==
    [UnlockConditions |-> StandardConditions(sk, timelock), SecretKeys |-> <<sk>>]

\* w.nextPrimarySeedAddress: the unlock conditions of the next key of the
\* primary seed; the key joins w.keys and the seed progress moves on.
nextPrimarySeedAddress(w) ==
    LET sk == <<"seed", w.seedProgress>>
        uc == StandardConditions(sk, 0)
    IN [ uc |-> uc,
         w |-> [w EXCEPT !.seedProgress = @ + 1,
                         !.keys = [uh \in DOMAIN @ \cup {UnlockHash(uc)} |->
                                      IF uh = UnlockHash(uc) THEN StandardKey(sk, 0)
                                      ELSE @[uh]]] ]

\* dbPutSpentOutput, dbDeleteSpentOutput on the spent-outputs bucket.
dbPutSpentOutput(w, id, h) ==
    [w EXCEPT !.spentOutputs =
        [x \in DOMAIN @ \cup {id} |-> IF x = id THEN h ELSE @[x]]]

dbDeleteSpentOutput(w, id) ==
    [w EXCEPT !.spentOutputs = [x \in DOMAIN @ \ {id} |-> @[x]]]

RECURSIVE dbPutSpentOutputs(_, _, _)
dbPutSpentOutputs(w, ids, h) ==
    IF ids = <<>> THEN w
    ELSE dbPutSpentOutputs(dbPutSpentOutput(w, Head(ids), h), Tail(ids), h)

RECURSIVE dbDeleteSpentOutputs(_, _)
dbDeleteSpentOutputs(w, ids) ==
    IF ids = <<>> THEN w
    ELSE dbDeleteSpentOutputs(dbDeleteSpentOutput(w, Head(ids)), Tail(ids))

RECURSIVE addSignaturesLoop_IndexAfter(_, _, _, _, _, _, _, _)
addSignaturesLoop_IndexAfter(t, cf, uc, parentID, spendKey, i, totalSignatures, newSigIndices) ==
    IF i > Len(uc.PublicKeys) THEN [txn |-> t, newSigIndices |-> newSigIndices]
    ELSE LET matching == {j \in 1..Len(spendKey.SecretKeys) :
                             PublicKey(spendKey.SecretKeys[j]) = uc.PublicKeys[i]}
         IN IF matching = {}
            THEN IF totalSignatures = uc.SignaturesRequired
                 THEN [txn |-> t, newSigIndices |-> newSigIndices]
                 ELSE addSignaturesLoop_IndexAfter(t, cf, uc, parentID, spendKey, i + 1,
                                                   totalSignatures, newSigIndices)
            ELSE LET j == CHOOSE j \in matching : \A k \in matching : j <= k
                     sig == [ParentID |-> parentID, CoveredFields |-> cf,
                             PublicKeyIndex |-> i - 1, Signature |-> <<>>]
                     t1 == [t EXCEPT !.TransactionSignatures = Append(@, sig)]
                     sigIndex == Len(t1.TransactionSignatures) - 1
                     encodedSig == SignHash(SigHash(t1, sigIndex), spendKey.SecretKeys[j])
                     t2 == [t1 EXCEPT !.TransactionSignatures[sigIndex + 1].Signature = encodedSig]
                     idxs == Append(newSigIndices, Len(t1.TransactionSignatures))
                 IN IF totalSignatures + 1 = uc.SignaturesRequired
                    THEN [txn |-> t2, newSigIndices |-> idxs]
                    ELSE addSignaturesLoop_IndexAfter(t2, cf, uc, parentID, spendKey, i + 1,
                                                      totalSignatures + 1, idxs)

\* The loop of addSignatures over uc.PublicKeys from index i on:
\* [txn, newSigIndices].
RECURSIVE addSignaturesLoop(_, _, _, _, _, _, _, _)
addSignaturesLoop(t, cf, uc, parentID, spendKey, i, totalSignatures, newSigIndices) ==
    IF i > Len(uc.PublicKeys) THEN [txn |-> t, newSigIndices |-> newSigIndices]
    ELSE LET matching == {j \in 1..Len(spendKey.SecretKeys) :
                             PublicKey(spendKey.SecretKeys[j]) = uc.PublicKeys[i]}
         IN IF matching = {}
            THEN IF totalSignatures = uc.SignaturesRequired
                 THEN [txn |-> t, newSigIndices |-> newSigIndices]
                 ELSE addSignaturesLoop(t, cf, uc, parentID, spendKey, i + 1,
                                        totalSignatures, newSigIndices)
            ELSE LET j == CHOOSE j \in matching : \A k \in matching : j <= k
                     sig == [ParentID |-> parentID, CoveredFields |-> cf,
                             PublicKeyIndex |-> i - 1, Signature |-> <<>>]
                     t1 == [t EXCEPT !.TransactionSignatures = Append(@, sig)]
                     sigIndex == Len(t1.TransactionSignatures) - 1
                     encodedSig == SignHash(SigHash(t1, sigIndex), spendKey.SecretKeys[j])
                     t2 == [t1 EXCEPT !.TransactionSignatures[sigIndex + 1].Signature = encodedSig]
                     idxs == Append(newSigIndices, Len(t.TransactionSignatures))
                 IN IF totalSignatures + 1 = uc.SignaturesRequired
                    THEN [txn |-> t2, newSigIndices |-> idxs]
                    ELSE addSignaturesLoop(t2, cf, uc, parentID, spendKey, i + 1,
                                           totalSignatures + 1, idxs)

addSignatures(t, cf, uc, parentID, spendKey) ==
    addSignaturesLoop(t, cf, uc, parentID, spendKey, 1, 0, <<>>)

checkOutput_IgnoresSpent(w, currentHeight, id, output, dustThreshold) ==
    IF output.Value < dustThreshold THEN errDustOutput
    ELSE IF currentHeight < KeyOf(w, output.UnlockHash).UnlockConditions.Timelock
         THEN errOutputTimelock
    ELSE nil

checkOutput_SpentIsDust(w, currentHeight, id, output, dustThreshold) ==
    IF output.Value < dustThreshold THEN errDustOutput
    ELSE IF /\ id \in DOMAIN w.spentOutputs
            /\ w.spentOutputs[id] + RespendTimeout > currentHeight
         THEN errDustOutput
    ELSE IF currentHeight < KeyOf(w, output.UnlockHash).UnlockConditions.Timelock
         THEN errOutputTimelock
    ELSE nil

checkOutput_IgnoresTimelock(w, currentHeight, id, output, dustThreshold) ==
    IF output.Value < dustThreshold THEN errDustOutput
    ELSE IF /\ id \in DOMAIN w.spentOutputs
            /\ w.spentOutputs[id] + RespendTimeout > currentHeight
         THEN errSpendHeightTooHigh
    ELSE nil

checkOutput(w, currentHeight, id, output, dustThreshold) ==
    IF output.Value < dustThreshold THEN errDustOutput
    ELSE IF /\ id \in DOMAIN w.spentOutputs
            /\ w.spentOutputs[id] + RespendTimeout > currentHeight
         THEN errSpendHeightTooHigh
    ELSE IF currentHeight < KeyOf(w, output.UnlockHash).UnlockConditions.Timelock
         THEN errOutputTimelock
    ELSE nil

calculateAmountFromOutputs_IgnoresFee(outputs, fee) == SumSeq(Values(outputs))

calculateAmountFromOutputs(outputs, fee) ==
    SumSeq(Values(outputs)) + (IF fee > 0 THEN fee ELSE 0)

\* The wallet-owned outputs of the unconfirmed processed transactions from
\* transaction k on, in order.
RECURSIVE unconfirmedOutputs(_, _)
unconfirmedOutputs(w, k) ==
    IF k > Len(w.unconfirmed) THEN <<>>
    ELSE LET t == w.unconfirmed[k]
             owned == SelectSeq([i \in 1..Len(t.SiacoinOutputs) |->
                                   [id |-> SiacoinOutputID(t, i - 1),
                                    output |-> t.SiacoinOutputs[i]]],
                                LAMBDA e : e.output.UnlockHash \in DOMAIN w.keys)
         IN owned \o unconfirmedOutputs(w, k + 1)

\* sort.Sort(sort.Reverse(so)): largest value first.  The order of outputs
\* of equal value is the sort algorithm's; the wallets below hold outputs of
\* distinct values, for which every sort gives this order.
RECURSIVE insertDescending(_, _)
insertDescending(sorted, e) ==
    IF sorted = <<>> THEN <<e>>
    ELSE IF sorted[Len(sorted)].output.Value < e.output.Value
         THEN Append(insertDescending(SubSeq(sorted, 1, Len(sorted) - 1), e),
                     sorted[Len(sorted)])
         ELSE Append(sorted, e)

sortDescending_Unsorted(so) == so

RECURSIVE sortDescending(_)
sortDescending(so) ==
    IF so = <<>> THEN <<>>
    ELSE insertDescending(sortDescending(SubSeq(so, 1, Len(so) - 1)), so[Len(so)])

\* The value-sorted set of siacoin outputs FundSiacoins collects (and
\* w.getSortedOutputs returns).
getSortedOutputs(w) == sortDescending(w.siacoinOutputs \o unconfirmedOutputs(w, 1))

\* The selection loop of FundSiacoins and of FundSiacoinsForOutputs over the
\* sorted outputs from index i on; acc is [fund, potentialFund, inputs,
\* spentScoids].
RECURSIVE selectOutputs(_, _, _, _, _, _, _)
selectOutputs(w, so, i, amount, consensusHeight, dustThreshold, acc) ==
    IF i > Len(so) THEN acc
    ELSE LET scoid == so[i].id
             sco == so[i].output
             err == checkOutput(w, consensusHeight, scoid, sco, dustThreshold)
         IN IF err # nil
            THEN selectOutputs(w, so, i + 1, amount, consensusHeight, dustThreshold,
                     IF err = errSpendHeightTooHigh
                     THEN [acc EXCEPT !.potentialFund = @ + sco.Value]
                     ELSE acc)
            ELSE LET sci == [ParentID |-> scoid,
                             UnlockConditions |-> KeyOf(w, sco.UnlockHash).UnlockConditions]
                     acc1 == [fund |-> acc.fund + sco.Value,
                              potentialFund |-> acc.potentialFund + sco.Value,
                              inputs |-> Append(acc.inputs, sci),
                              spentScoids |-> Append(acc.spentScoids, scoid)]
                 IN IF acc1.fund >= amount THEN acc1
                    ELSE selectOutputs(w, so, i + 1, amount, consensusHeight,
                                       dustThreshold, acc1)

NoSelection == [fund |-> 0, potentialFund |-> 0, inputs |-> <<>>, spentScoids |-> <<>>]

\* The transactionBuilder that registerTransaction(types.Transaction{}, nil)
\* returns, and that Drop leaves.
EmptyBuilder ==
    [ parents |-> <<>>, signed |-> FALSE, transaction |-> EmptyWalletTransaction,
      newParents |-> <<>>, siacoinInputs |-> <<>>, siafundInputs |-> <<>>,
      transactionSignatures |-> <<>> ]

\* The loop "for _, sci := range parentTxn.SiacoinInputs { addSignatures }"
\* (and the one over SiafundInputs) from input i on.
RECURSIVE signParent(_, _, _, _)
signParent(w, parentTxn, field, i) ==
    IF i > Len(parentTxn[field]) THEN parentTxn
    ELSE LET in == parentTxn[field][i]
             r == addSignatures(parentTxn, FullCoveredFields, in.UnlockConditions,
                                in.ParentID, KeyOf(w, UnlockHash(in.UnlockConditions)))
         IN signParent(w, r.txn, field, i + 1)

Returned(op, b, arg, err) == [op |-> op, b |-> b, arg |-> arg, err |-> err]

\* The history of what b selected and reserved, after a Fund* that selected
\* ids at height h.
Select(b, ids, h) ==
    [selected EXCEPT ![b] =
        [x \in DOMAIN @ \cup {ids[i] : i \in 1..Len(ids)} |->
            IF \E i \in 1..Len(ids) : ids[i] = x THEN h ELSE @[x]]]

\* The return of a Fund* call op(arg) on builder b with result r: the
\* builder and the wallet are as the call left them, and the outputs it
\* selected join the history.
Funded(op, b, arg, r) ==
    /\ ncalls < MaxCalls
    /\ ncalls' = ncalls + 1
    /\ builders' = [builders EXCEPT ![b] = r.tb]
    /\ wallet' = r.w
    /\ selected' = IF r.err = nil THEN Select(b, r.spent, wallet.height) ELSE selected
    /\ ret' = Returned(op, b, arg, r.err)
    /\ UNCHANGED vvars

\* tb.FundSiacoinsForOutputs(outputs, fee) on builder tb of wallet w: the
\* builder and the wallet it leaves, the error it returns and the outputs it
\* marked as spent.
fundSiacoinsForOutputs(w, tb, outputs, fee) ==
    LET dustThreshold == DustThreshold
        consensusHeight == w.height
        amount == calculateAmountFromOutputs(outputs, fee)
        tb1 == IF fee > 0
               THEN [tb EXCEPT !.transaction.MinerFees = Append(@, fee)]
               ELSE tb
        so == getSortedOutputs(w)
        sel == selectOutputs(w, so, 1, amount, consensusHeight, dustThreshold, NoSelection)
        n == Len(tb.transaction.SiacoinInputs)
        tb2 == [tb1 EXCEPT
                  !.siacoinInputs = @ \o [k \in 1..Len(sel.inputs) |-> n + k - 1],
                  !.transaction.SiacoinInputs = @ \o sel.inputs]
        tb3 == [tb2 EXCEPT !.transaction.SiacoinOutputs = @ \o outputs]
        refund == nextPrimarySeedAddress(w)
        tb4 == IF amount # sel.fund
               THEN [tb3 EXCEPT !.transaction.SiacoinOutputs =
                        Append(@, [Value |-> sel.fund - amount,
                                   UnlockHash |-> UnlockHash(refund.uc)])]
               ELSE tb3
        w1 == IF amount # sel.fund THEN refund.w ELSE w
    IN IF sel.potentialFund >= amount /\ sel.fund < amount
       THEN [tb |-> tb2, w |-> w, err |-> ErrIncompleteTransactions, spent |-> <<>>]
       ELSE IF sel.fund < amount
       THEN [tb |-> tb2, w |-> w, err |-> ErrLowBalance, spent |-> <<>>]
       ELSE [tb |-> tb4, w |-> dbPutSpentOutputs(w1, sel.spentScoids, consensusHeight),
             err |-> nil, spent |-> sel.spentScoids]

\* A call of tb.FundSiacoinsForOutputs(outputs, fee) on builder b.
FundSiacoinsForOutputs(b, outputs, fee) ==
    Funded("FundSiacoinsForOutputs", b, calculateAmountFromOutputs(outputs, fee),
           fundSiacoinsForOutputs(wallet, builders[b], outputs, fee))

\* The parent transaction FundSiacoins builds, before it is signed: the
\* selected inputs, the exact output and, when fund is not amount, the refund.
parentTransaction_NoRefund(inputs, amount, fund, parentUnlockHash, refundUnlockHash) ==
    [EmptyWalletTransaction EXCEPT
        !.SiacoinInputs = inputs,
        !.SiacoinOutputs = << [Value |-> amount, UnlockHash |-> parentUnlockHash] >>]

parentTransaction(inputs, amount, fund, parentUnlockHash, refundUnlockHash) ==
    LET exactOutput == [Value |-> amount, UnlockHash |-> parentUnlockHash]
        refundOutput == [Value |-> fund - amount, UnlockHash |-> refundUnlockHash]
    IN [EmptyWalletTransaction EXCEPT
          !.SiacoinInputs = inputs,
          !.SiacoinOutputs = IF amount # fund
                             THEN <<exactOutput, refundOutput>>
                             ELSE <<exactOutput>>]

\* tb.FundSiacoins(amount) on builder tb of wallet w: the builder and the
\* wallet it leaves, the error it returns and the outputs it selected.
fundSiacoins(w, tb, amount) ==
    LET dustThreshold == DustThreshold
        consensusHeight == w.height
        so == getSortedOutputs(w)
        sel == selectOutputs(w, so, 1, amount, consensusHeight, dustThreshold, NoSelection)
        parent == nextPrimarySeedAddress(w)
        parentUnlockConditions == parent.uc
        refund == nextPrimarySeedAddress(parent.w)
        w1 == IF amount # sel.fund THEN refund.w ELSE parent.w
        parentTxn0 == parentTransaction(sel.inputs, amount, sel.fund,
                                        UnlockHash(parentUnlockConditions),
                                        UnlockHash(refund.uc))
        parentTxn == signParent(w1, parentTxn0, "SiacoinInputs", 1)
        w2 == dbPutSpentOutput(w1, SiacoinOutputID(parentTxn, 0), consensusHeight)
        newInput == [ParentID |-> SiacoinOutputID(parentTxn, 0),
                     UnlockConditions |-> parentUnlockConditions]
        tb1 == [tb EXCEPT
                  !.newParents = Append(@, Len(tb.parents)),
                  !.parents = Append(@, parentTxn),
                  !.siacoinInputs = Append(@, Len(tb.transaction.SiacoinInputs)),
                  !.transaction.SiacoinInputs = Append(@, newInput)]
    IN IF sel.potentialFund >= amount /\ sel.fund < amount
       THEN [tb |-> tb, w |-> w, err |-> ErrIncompleteTransactions, spent |-> <<>>]
       ELSE IF sel.fund < amount
       THEN [tb |-> tb, w |-> w, err |-> ErrLowBalance, spent |-> <<>>]
       ELSE [tb |-> tb1, w |-> dbPutSpentOutputs(w2, sel.spentScoids, consensusHeight),
             err |-> nil, spent |-> sel.spentScoids]

\* A call of tb.FundSiacoins(amount) on builder b.
FundSiacoins(b, amount) ==
    Funded("FundSiacoins", b, amount, fundSiacoins(wallet, builders[b], amount))

\* The selection loop of FundSiafunds over the siafund bucket from entry i
\* on; acc is [w, fund, potentialFund, inputs, spentSfoids], w the wallet
\* with the claim addresses generated so far.
RECURSIVE selectSiafunds(_, _, _, _, _)
selectSiafunds(bucket, i, amount, consensusHeight, acc) ==
    IF i > Len(bucket) THEN acc
    ELSE LET sfoid == bucket[i].id
             sfo == bucket[i].output
             spendHeight == IF sfoid \in DOMAIN acc.w.spentOutputs
                            THEN acc.w.spentOutputs[sfoid] ELSE 0
             allowedHeight == IF consensusHeight < RespendTimeout THEN 0
                              ELSE consensusHeight - RespendTimeout
             outputUnlockConditions == KeyOf(acc.w, sfo.UnlockHash).UnlockConditions
         IN IF spendHeight > allowedHeight
            THEN selectSiafunds(bucket, i + 1, amount, consensusHeight,
                     [acc EXCEPT !.potentialFund = @ + sfo.Value])
            ELSE IF consensusHeight < outputUnlockConditions.Timelock
            THEN selectSiafunds(bucket, i + 1, amount, consensusHeight, acc)
            ELSE LET claim == nextPrimarySeedAddress(acc.w)
                     sfi == [ParentID |-> sfoid,
                             UnlockConditions |-> outputUnlockConditions,
                             ClaimUnlockHash |-> UnlockHash(claim.uc)]
                     acc1 == [w |-> claim.w,
                              fund |-> acc.fund + sfo.Value,
                              potentialFund |-> acc.potentialFund + sfo.Value,
                              inputs |-> Append(acc.inputs, sfi),
                              spentSfoids |-> Append(acc.spentSfoids, sfoid)]
                 IN IF acc1.fund >= amount THEN acc1
                    ELSE selectSiafunds(bucket, i + 1, amount, consensusHeight, acc1)

\* tb.FundSiafunds(amount) on builder tb of wallet w: the builder and the
\* wallet it leaves, the error it returns and the outputs it selected.
fundSiafunds(w, tb, amount) ==
    LET consensusHeight == w.height
        sel == selectSiafunds(w.siafundOutputs, 1, amount, consensusHeight,
                  [w |-> w, fund |-> 0, potentialFund |-> 0,
                   inputs |-> <<>>, spentSfoids |-> <<>>])
        parent == nextPrimarySeedAddress(sel.w)
        parentUnlockConditions == parent.uc
        exactOutput == [Value |-> amount, UnlockHash |-> UnlockHash(parentUnlockConditions),
                        ClaimStart |-> 0]
        refund == nextPrimarySeedAddress(parent.w)
        refundOutput == [Value |-> sel.fund - amount, UnlockHash |-> UnlockHash(refund.uc),
                         ClaimStart |-> 0]
        w1 == IF amount # sel.fund THEN refund.w ELSE parent.w
        parentTxn0 == [EmptyWalletTransaction EXCEPT
                         !.SiafundInputs = sel.inputs,
                         !.SiafundOutputs = IF amount # sel.fund
                                            THEN <<exactOutput, refundOutput>>
                                            ELSE <<exactOutput>>]
        parentTxn == signParent(w1, parentTxn0, "SiafundInputs", 1)
        claim == nextPrimarySeedAddress(w1)
        newInput == [ParentID |-> SiafundOutputID(parentTxn, 0),
                     UnlockConditions |-> parentUnlockConditions,
                     ClaimUnlockHash |-> UnlockHash(claim.uc)]
        tb1 == [tb EXCEPT
                  !.newParents = Append(@, Len(tb.parents)),
                  !.parents = Append(@, parentTxn),
                  !.siafundInputs = Append(@, Len(tb.transaction.SiafundInputs)),
                  !.transaction.SiafundInputs = Append(@, newInput)]
    IN IF sel.potentialFund >= amount /\ sel.fund < amount
       THEN [tb |-> tb, w |-> sel.w, err |-> ErrIncompleteTransactions, spent |-> <<>>]
       ELSE IF sel.fund < amount
       THEN [tb |-> tb, w |-> sel.w, err |-> ErrLowBalance, spent |-> <<>>]
       ELSE [tb |-> tb1, w |-> dbPutSpentOutputs(claim.w, sel.spentSfoids, consensusHeight),
             err |-> nil, spent |-> sel.spentSfoids]

\* A call of tb.FundSiafunds(amount) on builder b.
FundSiafunds(b, amount) ==
    Funded("FundSiafunds", b, amount, fundSiafunds(wallet, builders[b], amount))

\* The ParentIDs of the siacoin inputs of the transactions txns, in order.
RECURSIVE siacoinInputIDs(_)
siacoinInputIDs(txns) ==
    IF txns = <<>> THEN <<>>
    ELSE [i \in 1..Len(Head(txns).SiacoinInputs) |-> Head(txns).SiacoinInputs[i].ParentID]
         \o siacoinInputIDs(Tail(txns))

\* tb.Drop() on builder tb of wallet w: the wallet it leaves (the builder
\* it leaves is EmptyBuilder).
dropBuilder(w, tb) ==
    LET txns == Append(tb.parents, tb.transaction)
    IN dbDeleteSpentOutputs(w, siacoinInputIDs(txns))

\* Drop that empties the transaction and the parents but keeps the index
\* lists and the signed flag.
Drop_KeepsAdded(b) ==
    /\ ncalls < MaxCalls
    /\ ncalls' = ncalls + 1
    /\ wallet' = dropBuilder(wallet, builders[b])
    /\ builders' = [builders EXCEPT ![b].parents = <<>>,
                                    ![b].transaction = EmptyWalletTransaction]
    /\ selected' = [selected EXCEPT ![b] = <<>>]
    /\ ret' = Returned("Drop", b, 0, nil)
    /\ UNCHANGED vvars

\* A call of tb.Drop() on builder b.
Drop(b) ==
    /\ ncalls < MaxCalls
    /\ ncalls' = ncalls + 1
    /\ wallet' = dropBuilder(wallet, builders[b])
    /\ builders' = [builders EXCEPT ![b] = EmptyBuilder]
    /\ selected' = [selected EXCEPT ![b] = <<>>]
    /\ ret' = Returned("Drop", b, 0, nil)
    /\ UNCHANGED vvars

\* tb.AddSiacoinInput(input), tb.AddSiafundInput(input) and
\* tb.AddTransactionSignature(sig) on builder b: the element is appended to the
\* transaction and nothing is recorded in the builder's index lists.  They
\* take no lock.
AddSiacoinInput(b, input) ==
    /\ ncalls < MaxCalls
    /\ ncalls' = ncalls + 1
    /\ builders' = [builders EXCEPT ![b].transaction.SiacoinInputs = Append(@, input)]
    /\ ret' = Returned("AddSiacoinInput", b, Len(builders[b].transaction.SiacoinInputs), nil)
    /\ UNCHANGED <<wallet, selected>>
    /\ UNCHANGED vvars

AddSiafundInput(b, input) ==
    /\ ncalls < MaxCalls
    /\ ncalls' = ncalls + 1
    /\ builders' = [builders EXCEPT ![b].transaction.SiafundInputs = Append(@, input)]
    /\ ret' = Returned("AddSiafundInput", b, Len(builders[b].transaction.SiafundInputs), nil)
    /\ UNCHANGED <<wallet, selected>>
    /\ UNCHANGED vvars

AddTransactionSignature(b, sig) ==
    /\ ncalls < MaxCalls
    /\ ncalls' = ncalls + 1
    /\ builders' = [builders EXCEPT ![b].transaction.TransactionSignatures = Append(@, sig)]
    /\ ret' = Returned("AddTransactionSignature", b,
                       Len(builders[b].transaction.TransactionSignatures), nil)
    /\ UNCHANGED <<wallet, selected>>
    /\ UNCHANGED vvars

Indices_FromOne(q) == [i \in 1..Len(q) |-> i]

Indices(q) == [i \in 1..Len(q) |-> i - 1]

RECURSIVE signInputs_EveryInput(_, _, _, _, _, _)
signInputs_EveryInput(w, tb, coveredFields, field, idxs, k) ==
    IF k > Len(tb.transaction[field]) THEN [tb |-> tb, err |-> nil]
    ELSE LET input == tb.transaction[field][k]
             uh == UnlockHash(input.UnlockConditions)
         IN IF uh \notin DOMAIN w.keys THEN [tb |-> tb, err |-> errCannotSign]
            ELSE LET r == addSignatures(tb.transaction, coveredFields,
                                        input.UnlockConditions, input.ParentID, w.keys[uh])
                     tb1 == [tb EXCEPT
                               !.transaction = r.txn,
                               !.transactionSignatures = @ \o r.newSigIndices,
                               !.signed = TRUE]
                 IN signInputs_EveryInput(w, tb1, coveredFields, field, idxs, k + 1)

RECURSIVE signInputs_NoFlag(_, _, _, _, _, _)
signInputs_NoFlag(w, tb, coveredFields, field, idxs, k) ==
    IF k > Len(idxs) THEN [tb |-> tb, err |-> nil]
    ELSE LET input == tb.transaction[field][idxs[k] + 1]
             uh == UnlockHash(input.UnlockConditions)
         IN IF uh \notin DOMAIN w.keys THEN [tb |-> tb, err |-> errCannotSign]
            ELSE LET r == addSignatures(tb.transaction, coveredFields,
                                        input.UnlockConditions, input.ParentID, w.keys[uh])
                     tb1 == [tb EXCEPT
                               !.transaction = r.txn,
                               !.transactionSignatures = @ \o r.newSigIndices]
                 IN signInputs_NoFlag(w, tb1, coveredFields, field, idxs, k + 1)

\* The two signing loops of Sign, over the indices idxs (tb.siacoinInputs or
\* tb.siafundInputs) of the inputs in tb.transaction[field], from position k
\* on: [tb, err].
RECURSIVE signInputs(_, _, _, _, _, _)
signInputs(w, tb, coveredFields, field, idxs, k) ==
    IF k > Len(idxs) THEN [tb |-> tb, err |-> nil]
    ELSE LET input == tb.transaction[field][idxs[k] + 1]
             uh == UnlockHash(input.UnlockConditions)
         IN IF uh \notin DOMAIN w.keys THEN [tb |-> tb, err |-> errCannotSign]
            ELSE LET r == addSignatures(tb.transaction, coveredFields,
                                        input.UnlockConditions, input.ParentID, w.keys[uh])
                     tb1 == [tb EXCEPT
                               !.transaction = r.txn,
                               !.transactionSignatures = @ \o r.newSigIndices,
                               !.signed = TRUE]
                 IN signInputs(w, tb1, coveredFields, field, idxs, k + 1)

\* tb.Sign(wholeTransaction) on builder tb of wallet w: the builder it
\* leaves and the error it returns (the transaction set it returns is
\* tb.parents and then tb.transaction).
signBuilder(w, tb, wholeTransaction) ==
    LET coveredFields ==
            [ WholeTransaction |-> wholeTransaction,
              fields |-> IF wholeTransaction
                         THEN [f \in WalletFieldNames |-> <<>>]
                         ELSE [f \in WalletFieldNames |-> Indices(tb.transaction[f])],
              TransactionSignatures |-> Indices(tb.transaction.TransactionSignatures) ]
        r1 == signInputs(w, tb, coveredFields, "SiacoinInputs", tb.siacoinInputs, 1)
        r2 == signInputs(w, r1.tb, coveredFields, "SiafundInputs", tb.siafundInputs, 1)
    IN IF tb.signed THEN [tb |-> tb, err |-> errBuilderAlreadySigned]
       ELSE IF r1.err # nil THEN r1
       ELSE r2

\* A call of tb.Sign(wholeTransaction) on builder b.
Sign(b, wholeTransaction) ==
    LET r == signBuilder(wallet, builders[b], wholeTransaction)
    IN /\ ncalls < MaxCalls
       /\ ncalls' = ncalls + 1
       /\ ret' = Returned("Sign", b, wholeTransaction, r.err)
       /\ builders' = [builders EXCEPT ![b] = r.tb]
       /\ UNCHANGED <<wallet, selected>>
       /\ UNCHANGED vvars

\* The wallet processes one more block: the consensus height in its
\* database goes up by one.
AdvanceHeight ==
    /\ wallet.height < MaxWalletHeight
    /\ wallet' = [wallet EXCEPT !.height = @ + 1]
    /\ UNCHANGED <<builders, ret, selected, ncalls>>
    /\ UNCHANGED vvars

(***************************************************************************)
(* The wallets the builders run against.                                   *)
(***************************************************************************)
Builders == {"b1", "b2"}

keyA == StandardKey(<<"seed", 0>>, 0)
keyT == StandardKey(<<"seed", 1>>, 2)
addrA == UnlockHash(keyA.UnlockConditions)
addrT == UnlockHash(keyT.UnlockConditions)

\* Addresses of other parties, and the ids of outputs confirmed on chain.
addrOther(n) == UnlockHash(StandardConditions(<<"other", n>>, 0))
ConfirmedID(name) == <<"confirmed", name, 0>>

WalletKeys == [uh \in {addrA, addrT} |-> IF uh = addrA THEN keyA ELSE keyT]

SiafundBucket ==
    << [id |-> ConfirmedID("f1"), output |-> [Value |-> 3, UnlockHash |-> addrA, ClaimStart |-> 0]],
       [id |-> ConfirmedID("f2"), output |-> [Value |-> 2, UnlockHash |-> addrA, ClaimStart |-> 0]] >>

\* A wallet holding a single siacoin output of 100.
SingleOutputWallet ==
    [ height |-> 0,
      siacoinOutputs |-> << [id |-> ConfirmedID("o1"), output |-> [Value |-> 100, UnlockHash |-> addrA]] >>,
      siafundOutputs |-> SiafundBucket,
      spentOutputs |-> <<>>,
      keys |-> WalletKeys,
      seedProgress |-> 2,
      unconfirmed |-> <<>> ]

\* A wallet with a dust output, a timelocked output and an unconfirmed
\* transaction that pays the wallet and somebody else.
MixedWallet ==
    [ height |-> 0,
      siacoinOutputs |->
          << [id |-> ConfirmedID("o3"), output |-> [Value |-> 5, UnlockHash |-> addrA]],
             [id |-> ConfirmedID("o2"), output |-> [Value |-> 60, UnlockHash |-> addrA]],
             [id |-> ConfirmedID("o4"), output |-> [Value |-> 40, UnlockHash |-> addrT]],
             [id |-> ConfirmedID("o1"), output |-> [Value |-> 100, UnlockHash |-> addrA]] >>,
      siafundOutputs |-> SiafundBucket,
      spentOutputs |-> <<>>,
      keys |-> WalletKeys,
      seedProgress |-> 2,
      unconfirmed |->
          << [EmptyWalletTransaction EXCEPT !.SiacoinOutputs =
                 << [Value |-> 70, UnlockHash |-> addrOther(1)],
                    [Value |-> 30, UnlockHash |-> addrA] >>] >> ]

SiacoinAmounts == {50, 150}
SiafundAmounts == {3}
RequestedOutputs ==
    { << [Value |-> 100, UnlockHash |-> addrOther(2)] >> }
Fees == {10}

InitWallet ==
    /\ wallet \in {SingleOutputWallet, MixedWallet}
    /\ builders = [b \in Builders |-> EmptyBuilder]
    /\ ret = Returned("none", "none", 0, nil)
    /\ selected = [b \in Builders |-> <<>>]
    /\ ncalls = 0
    /\ state = ConsensusState(0)
    /\ txn = EmptyTransaction
    /\ call = NoCall
    /\ prev = NoCall

NextWallet ==
    \/ \E b \in Builders : \E amount \in SiacoinAmounts : FundSiacoins(b, amount)
    \/ \E b \in Builders : \E outputs \in RequestedOutputs : \E fee \in Fees :
          FundSiacoinsForOutputs(b, outputs, fee)
    \/ \E b \in Builders : \E amount \in SiafundAmounts : FundSiafunds(b, amount)
    \/ \E b \in Builders : \E wholeTransaction \in BOOLEAN : Sign(b, wholeTransaction)
    \/ \E b \in Builders : Drop(b)
    \/ AdvanceHeight

SpecWallet == InitWallet /\ [][NextWallet]_vars

(***************************************************************************)
(* One builder of a wallet, with RegisterTransaction and NewTransaction.   *)
(***************************************************************************)
\* w.registerTransaction(t, parents): the builder works on copies of them.
registerTransaction(t, parents) ==
    [EmptyBuilder EXCEPT !.parents = parents, !.transaction = t]

\* A call of w.RegisterTransaction(t, parents); the new builder is b.
RegisterTransaction(b, t, parents) ==
    /\ ncalls < MaxCalls
    /\ builders[b] = EmptyBuilder
    /\ ncalls' = ncalls + 1
    /\ builders' = [builders EXCEPT ![b] = registerTransaction(t, parents)]
    /\ ret' = Returned("RegisterTransaction", b, 0, nil)
    /\ UNCHANGED <<wallet, selected>>
    /\ UNCHANGED vvars

\* w.NewTransaction(outputs, fee) on wallet w: StartTransaction,
\* FundSiacoinsForOutputs, Sign(true), and Drop when one of them fails; the
\* wallet it leaves, the transaction and the error it returns.
newTransaction(w, outputs, fee) ==
    LET tb == registerTransaction(EmptyWalletTransaction, <<>>)
        funded == fundSiacoinsForOutputs(w, tb, outputs, fee)
        signed == signBuilder(funded.w, funded.tb, TRUE)
        txnSet == Append(signed.tb.parents, signed.tb.transaction)
    IN IF funded.err # nil
       THEN [w |-> dropBuilder(funded.w, funded.tb), tx |-> EmptyWalletTransaction,
             err |-> funded.err]
       ELSE IF signed.err # nil
       THEN [w |-> dropBuilder(funded.w, signed.tb), tx |-> EmptyWalletTransaction,
             err |-> signed.err]
       ELSE [w |-> funded.w, tx |-> txnSet[1], err |-> nil]

\* A call of w.NewTransaction(outputs, fee).
NewTransaction(outputs, fee) ==
    LET r == newTransaction(wallet, outputs, fee)
    IN /\ ncalls < MaxCalls
       /\ ncalls' = ncalls + 1
       /\ wallet' = r.w
       /\ ret' = [op |-> "NewTransaction", b |-> "none",
                  arg |-> [outputs |-> outputs, fee |-> fee],
                  err |-> r.err, tx |-> r.tx]
       /\ UNCHANGED <<builders, selected>>
       /\ UNCHANGED vvars

\* An address whose outputs are in the wallet's siacoin output bucket while
\* w.keys has no entry for it: the case the missing-key branch of Sign is
\* for.
addrW == addrOther(9)

\* A wallet with an output of 100 it holds the key of and an output of
\* value v at such an address.
WatchWallet(v) ==
    [ height |-> 0,
      siacoinOutputs |->
          << [id |-> ConfirmedID("o1"), output |-> [Value |-> 100, UnlockHash |-> addrA]],
             [id |-> ConfirmedID("o5"), output |-> [Value |-> v, UnlockHash |-> addrW]] >>,
      siafundOutputs |-> SiafundBucket,
      spentOutputs |-> <<>>,
      keys |-> WalletKeys,
      seedProgress |-> 2,
      unconfirmed |-> <<>> ]

\* A transaction made elsewhere that spends the wallet's output o1.
BaseTransaction ==
    [EmptyWalletTransaction EXCEPT
        !.SiacoinInputs = << [ParentID |-> ConfirmedID("o1"),
                              UnlockConditions |-> keyA.UnlockConditions] >>,
        !.SiacoinOutputs = << [Value |-> 100, UnlockHash |-> addrOther(1)] >>]

\* A transaction of another party, with one input that party has signed:
\* what a host hands to RegisterTransaction.
keyH == StandardKey(<<"other", 1>>, 0)

HostTransaction ==
    addSignatures([EmptyWalletTransaction EXCEPT
                      !.SiacoinInputs = << [ParentID |-> ConfirmedID("h1"),
                                            UnlockConditions |-> keyH.UnlockConditions] >>,
                      !.SiacoinOutputs = << [Value |-> 20, UnlockHash |-> addrOther(1)] >>],
                  FullCoveredFields, keyH.UnlockConditions, ConfirmedID("h1"), keyH).txn

Registrations ==
    { [t |-> BaseTransaction, parents |-> <<>>],
      [t |-> EmptyWalletTransaction, parents |-> <<BaseTransaction>>],
      [t |-> HostTransaction, parents |-> <<>>] }

\* Inputs and a signature handed to the Add* calls: inputs that spend outputs
\* sent to a wallet address which the wallet's buckets do not hold.
AddedSiacoinInputs ==
    { [ParentID |-> ConfirmedID("x1"), UnlockConditions |-> keyA.UnlockConditions] }

AddedSiafundInputs ==
    { [ParentID |-> ConfirmedID("x2"), UnlockConditions |-> keyA.UnlockConditions,
       ClaimUnlockHash |-> addrA] }

AddedSignatures == { HostTransaction.TransactionSignatures[1] }

Requests ==
    { [outputs |-> << [Value |-> 60, UnlockHash |-> addrOther(2)] >>, fee |-> 10],
      [outputs |-> << [Value |-> 100, UnlockHash |-> addrOther(2)] >>, fee |-> 10],
      [outputs |-> << [Value |-> 60, UnlockHash |-> addrOther(2)],
                      [Value |-> 40, UnlockHash |-> addrOther(3)] >>, fee |-> 0] }

BuilderAmounts == {50, 100, 150}

InitBuilder ==
    /\ wallet \in {SingleOutputWallet, MixedWallet, WatchWallet(60), WatchWallet(120)}
    /\ builders = [b \in Builders |-> EmptyBuilder]
    /\ ret = Returned("none", "none", 0, nil)
    /\ selected = [b \in Builders |-> <<>>]
    /\ ncalls = 0
    /\ state = ConsensusState(0)
    /\ txn = EmptyTransaction
    /\ call = NoCall
    /\ prev = NoCall

NextBuilder ==
    \/ \E r \in Registrations :
          ncalls < MaxBuilderCalls /\ RegisterTransaction("b1", r.t, r.parents)
    \/ \E amount \in BuilderAmounts :
          ncalls < MaxBuilderCalls /\ FundSiacoins("b1", amount)
    \/ \E r \in Requests :
          ncalls < MaxBuilderCalls /\ FundSiacoinsForOutputs("b1", r.outputs, r.fee)
    \/ \E amount \in SiafundAmounts :
          ncalls < MaxBuilderCalls /\ FundSiafunds("b1", amount)
    \/ \E wholeTransaction \in BOOLEAN :
          ncalls < MaxBuilderCalls /\ Sign("b1", wholeTransaction)
    \/ ncalls < MaxBuilderCalls /\ Drop("b1")
    \/ \E input \in AddedSiacoinInputs :
          ncalls < MaxBuilderCalls /\ AddSiacoinInput("b1", input)
    \/ \E input \in AddedSiafundInputs :
          ncalls < MaxBuilderCalls /\ AddSiafundInput("b1", input)
    \/ \E sig \in AddedSignatures :
          ncalls < MaxBuilderCalls /\ AddTransactionSignature("b1", sig)
    \/ \E r \in Requests :
          ncalls < MaxBuilderCalls /\ NewTransaction(r.outputs, r.fee)
    \/ AdvanceHeight

SpecBuilder == InitBuilder /\ [][NextBuilder]_vars
(***************************************************************************)
(* Properties of the validator, checked under SpecValidator.               *)
(***************************************************************************)
CheckNames ==
    <<"FollowsStorageProofRules", "validSiacoins", "validFileContracts",
      "validFileContractTerminations", "validStorageProofs", "validSiafunds",
      "validSignatures">>

\* The result of each check of validTransaction taken alone, in the order
\* of CheckNames.
CheckErrors(s, t) ==
    <<FollowsStorageProofRules(t), validSiacoins(s, t), validFileContracts(s, t),
      validFileContractTerminations(s, t), validStorageProofs(s, t),
      validSiafunds(s, t), validSignatures(s, t)>>

\* What is wrong with one siacoin input taken alone, nil if nothing.
InputError(s, sci) ==
    IF sci.ParentID \notin DOMAIN s.siacoinOutputs THEN ErrMissingSiacoinOutput
    ELSE IF UnlockHash(sci.UnlockConditions) # s.siacoinOutputs[sci.ParentID].UnlockHash
         THEN ErrUnlockHash
    ELSE IF sci.UnlockConditions.Timelock > s.height THEN ErrTimelock
    ELSE nil

Accepted(fn) == call.fn = fn /\ call.err = nil

\* C1: a transaction that validTransaction accepts and that has storage
\* proofs has no siacoin outputs, no file contracts, no file contract
\* terminations and no siafund outputs.
C1_StorageProofExclusivity ==
    (Accepted("validTransaction") /\ Len(txn.StorageProofs) # 0)
        => /\ Len(txn.SiacoinOutputs) = 0
           /\ Len(txn.FileContracts) = 0
           /\ Len(txn.FileContractTerminations) = 0
           /\ Len(txn.SiafundOutputs) = 0

C1_Witness == Accepted("validTransaction") /\ Len(txn.StorageProofs) # 0

\* C2: for a transaction accepted by validSiacoins or by validTransaction,
\* the values of the state outputs its siacoin inputs refer to sum to the
\* miner fees plus the contract payouts plus the siacoin output values;
\* nothing else enters the sum.
C2_SiacoinConservation ==
    (Accepted("validSiacoins") \/ Accepted("validTransaction"))
        => /\ \A i \in 1..Len(txn.SiacoinInputs) :
                 txn.SiacoinInputs[i].ParentID \in DOMAIN state.siacoinOutputs
           /\ SumSeq([i \in 1..Len(txn.SiacoinInputs) |->
                        state.siacoinOutputs[txn.SiacoinInputs[i].ParentID].Value])
              = SumSeq(txn.MinerFees)
                + SumSeq([i \in 1..Len(txn.FileContracts) |-> txn.FileContracts[i].Payout])
                + SumSeq(Values(txn.SiacoinOutputs))

C2_Witness ==
    /\ Accepted("validSiacoins")
    /\ Len(txn.SiacoinInputs) # 0
    /\ Len(txn.SiafundOutputs) + Len(txn.FileContractTerminations) # 0

\* C3: for a transaction accepted by validSiafunds every siafund input
\* refers to an output of the state whose unlock hash and timelock are
\* satisfied, every siafund output has ClaimStart zero, and the input values
\* sum to the output values.
C3_SiafundFlow ==
    Accepted("validSiafunds")
        => /\ \A i \in 1..Len(txn.SiafundInputs) :
                 LET sfi == txn.SiafundInputs[i] IN
                 /\ sfi.ParentID \in DOMAIN state.siafundOutputs
                 /\ UnlockHash(sfi.UnlockConditions)
                      = state.siafundOutputs[sfi.ParentID].UnlockHash
                 /\ sfi.UnlockConditions.Timelock <= state.height
           /\ \A i \in 1..Len(txn.SiafundOutputs) : txn.SiafundOutputs[i].ClaimStart = 0
           /\ SumSeq([i \in 1..Len(txn.SiafundInputs) |->
                        state.siafundOutputs[txn.SiafundInputs[i].ParentID].Value])
              = SumSeq(Values(txn.SiafundOutputs))

C3_Witness ==
    /\ Accepted("validSiafunds")
    /\ Len(txn.SiafundInputs) # 0
    /\ Len(txn.SiafundOutputs) # 0

\* C4: validTransaction returns the error of the earliest failing check in
\* the order storage-proof rules, siacoins, file contracts, terminations,
\* storage proofs, siafunds, signatures, and runs no check after it.
C4_FirstErrorInOrder ==
    call.fn = "validTransaction"
        => LET errs == CheckErrors(state, txn)
               failing == {i \in 1..Len(errs) : errs[i] # nil}
               last == IF failing = {} THEN Len(errs)
                       ELSE CHOOSE i \in failing : \A j \in failing : i <= j
           IN /\ call.err = FirstError(errs)
              /\ call.ran = SubSeq(CheckNames, 1, last)

C4_Witness ==
    /\ call.fn = "validTransaction"
    /\ LET errs == CheckErrors(state, txn) IN
       \E i, j \in 2..Len(errs) : i < j /\ errs[i] # nil /\ errs[j] # nil /\ errs[i] # errs[j]

\* C5: validSiacoins accepts only when every siacoin input refers to an
\* output of the state, its unlock conditions hash to that output's unlock
\* hash and their timelock is not above the height; when the first input
\* with something wrong is one whose parent is absent, the error is
\* ErrMissingSiacoinOutput.
C5_SiacoinInputsLegal ==
    call.fn = "validSiacoins"
        => /\ call.err = nil =>
                 \A i \in 1..Len(txn.SiacoinInputs) :
                    LET sci == txn.SiacoinInputs[i] IN
                    /\ sci.ParentID \in DOMAIN state.siacoinOutputs
                    /\ UnlockHash(sci.UnlockConditions)
                         = state.siacoinOutputs[sci.ParentID].UnlockHash
                    /\ sci.UnlockConditions.Timelock <= state.height
           /\ \A i \in 1..Len(txn.SiacoinInputs) :
                 ( /\ txn.SiacoinInputs[i].ParentID \notin DOMAIN state.siacoinOutputs
                   /\ \A j \in 1..(i - 1) : InputError(state, txn.SiacoinInputs[j]) = nil )
                 => call.err = ErrMissingSiacoinOutput

C5_Witness ==
    /\ Accepted("validSiacoins")
    /\ \E i \in 1..Len(txn.SiacoinInputs) : txn.SiacoinInputs[i].UnlockConditions.Timelock > 0

\* C6: validSiacoins reports the lowest-index siacoin input with something
\* wrong (absent parent before unlock-hash mismatch before timelock), and
\* the inputs-do-not-equal-outputs error only when no input has anything
\* wrong.
C6_InputsInListOrder ==
    call.fn = "validSiacoins"
        => LET bad == {i \in 1..Len(txn.SiacoinInputs) :
                          InputError(state, txn.SiacoinInputs[i]) # nil}
           IN /\ bad # {} =>
                   call.err = InputError(state,
                       txn.SiacoinInputs[CHOOSE i \in bad : \A j \in bad : i <= j])
              /\ call.err = ErrInputsOutputs => bad = {}

C6_Witness ==
    /\ call.fn = "validSiacoins"
    /\ Len(txn.SiacoinInputs) >= 2
    /\ InputError(state, txn.SiacoinInputs[1]) # nil
    /\ InputError(state, txn.SiacoinInputs[2]) # nil
    /\ InputError(state, txn.SiacoinInputs[1]) # InputError(state, txn.SiacoinInputs[2])
    /\ UnlockHash(txn.SiacoinInputs[1].UnlockConditions)
         # state.siacoinOutputs["sco1"].UnlockHash
    /\ txn.SiacoinInputs[1].UnlockConditions.Timelock > state.height

\* C7: validFileContracts accepts only when every new contract starts after
\* the height, expires after it starts, has valid-proof outputs summing to
\* the payout minus the tax and missed-proof outputs summing to the payout;
\* a contract reached by the loop whose start and expiration are fine and
\* whose valid-proof outputs sum to something else gives the payout-mismatch
\* error.
C7_FileContractsLegal ==
    call.fn = "validFileContracts"
        => LET Sound(fc) ==
                  /\ fc.Start > state.height
                  /\ fc.Expiration > fc.Start
                  /\ SumSeq(Values(fc.ValidProofOutputs)) = fc.Payout - Tax(fc)
                  /\ SumSeq(Values(fc.MissedProofOutputs)) = fc.Payout
           IN /\ call.err = nil => \A i \in 1..Len(txn.FileContracts) : Sound(txn.FileContracts[i])
              /\ \A i \in 1..Len(txn.FileContracts) :
                    LET fc == txn.FileContracts[i] IN
                    ( /\ \A j \in 1..(i - 1) : Sound(txn.FileContracts[j])
                      /\ fc.Start > state.height
                      /\ fc.Expiration > fc.Start
                      /\ SumSeq(Values(fc.ValidProofOutputs)) # fc.Payout - Tax(fc) )
                    => call.err = ErrValidProofSum

C7_Witness ==
    /\ Accepted("validFileContracts")
    /\ Len(txn.FileContracts) >= 2

\* C8: validFileContractTerminations accepts only when every termination
\* refers to a contract of the state, its conditions hash to the contract's
\* termination hash with the timelock met, and its payouts sum to the
\* contract's payout; when the first termination refers to no contract of
\* the state the error is ErrMissingFileContract.
C8_TerminationsLegal ==
    call.fn = "validFileContractTerminations"
        => /\ call.err = nil =>
                 \A i \in 1..Len(txn.FileContractTerminations) :
                    LET fct == txn.FileContractTerminations[i] IN
                    /\ fct.ParentID \in DOMAIN state.fileContracts
                    /\ UnlockHash(fct.TerminationConditions)
                         = state.fileContracts[fct.ParentID].TerminationHash
                    /\ fct.TerminationConditions.Timelock <= state.height
                    /\ SumSeq(Values(fct.Payouts)) = state.fileContracts[fct.ParentID].Payout
           /\ ( /\ Len(txn.FileContractTerminations) > 0
                /\ txn.FileContractTerminations[1].ParentID \notin DOMAIN state.fileContracts )
              => call.err = ErrMissingFileContract

C8_Witness ==
    /\ Accepted("validFileContractTerminations")
    /\ Len(txn.FileContractTerminations) >= 2
    /\ \E i \in 1..2 : txn.FileContractTerminations[i].TerminationConditions.Timelock > 0

C10_NoDoubleSelection ==
    \A b1, b2 \in Builders :
        b1 # b2 =>
            \A id \in DOMAIN selected[b1] \cap DOMAIN selected[b2] :
                \/ selected[b1][id] >= selected[b2][id] + RespendTimeout
                \/ selected[b2][id] >= selected[b1][id] + RespendTimeout

\* The step is a call of a siacoin fund operation (by builder ret'.b).
SiacoinFundCall ==
    /\ ncalls' = ncalls + 1
    /\ ret'.op \in {"FundSiacoins", "FundSiacoinsForOutputs"}

\* The ParentIDs of the inputs in q.
InputIDs(q) == {q[i].ParentID : i \in 1..Len(q)}

\* The wallet outputs the siacoin fund call of this step selected, read off
\* the builder: the inputs of the parent FundSiacoins appended, or the inputs
\* FundSiacoinsForOutputs appended to the transaction.
NewlySelected ==
    LET tb == builders[ret'.b]
        tb1 == builders'[ret'.b]
    IN IF ret'.op = "FundSiacoins"
       THEN IF Len(tb1.parents) > Len(tb.parents)
            THEN InputIDs(tb1.parents[Len(tb1.parents)].SiacoinInputs)
            ELSE {}
       ELSE InputIDs(SubSeq(tb1.transaction.SiacoinInputs,
                            Len(tb.transaction.SiacoinInputs) + 1,
                            Len(tb1.transaction.SiacoinInputs)))

\* The entry of id in the recently-spent table w.spentOutputs blocks a
\* siacoin fund call at height h.
Reserved(w, id, h) ==
    id \in DOMAIN w.spentOutputs /\ w.spentOutputs[id] + RespendTimeout > h

\* C11: after a successful FundSiacoins or FundSiacoinsForOutputs at height
\* h every output it selected has a recently-spent entry with value h; a
\* siacoin fund call at height h' selects no output whose entry satisfies
\* spendHeight + RespendTimeout > h'; and FundSiacoins(50) right after a
\* successful FundSiacoins(50) against the wallet with the single output of
\* 100, while that reservation lasts, returns ErrIncompleteTransactions.
C11_ReservationsRespected ==
    [][ /\ (SiacoinFundCall /\ ret'.err = nil) =>
              /\ NewlySelected # {}
              /\ \A id \in NewlySelected :
                    /\ id \in DOMAIN wallet'.spentOutputs
                    /\ wallet'.spentOutputs[id] = wallet.height
        /\ SiacoinFundCall =>
              \A id \in NewlySelected : ~Reserved(wallet, id, wallet.height)
        /\ ( /\ SiacoinFundCall
             /\ ret'.op = "FundSiacoins" /\ ret'.arg = 50
             /\ ret.op = "FundSiacoins" /\ ret.arg = 50 /\ ret.err = nil
             /\ wallet.siacoinOutputs = SingleOutputWallet.siacoinOutputs
             /\ wallet.unconfirmed = <<>>
             /\ Reserved(wallet, ConfirmedID("o1"), wallet.height) )
           => ret'.err = ErrIncompleteTransactions
      ]_vars

C11_Witness ==
    /\ ret.op = "FundSiacoins" /\ ret.arg = 50
    /\ ret.err = ErrIncompleteTransactions
    /\ wallet.siacoinOutputs = SingleOutputWallet.siacoinOutputs
    /\ Reserved(wallet, ConfirmedID("o1"), wallet.height)
    /\ \E b \in Builders : ConfirmedID("o1") \in DOMAIN selected[b]

\* The ids of output 0 of the parents FundSiacoins made for builder tb: the
\* parent outputs it marked as spent.
ParentOutputIDs(tb) ==
    {SiacoinOutputID(tb.parents[tb.newParents[k] + 1], 0) : k \in 1..Len(tb.newParents)}

\* C12: after tb.Drop() returns, the recently-spent table holds no entry
\* written by an earlier FundSiacoins, FundSiacoinsForOutputs or FundSiafunds
\* call of that builder: siacoin outputs, parent outputs and siafund outputs
\* alike.
C12_DropErasesReservations ==
    [][ (ncalls' = ncalls + 1 /\ ret'.op = "Drop") =>
            /\ \A id \in DOMAIN selected[ret'.b] :
                   ~( /\ id \in DOMAIN wallet'.spentOutputs
                      /\ wallet'.spentOutputs[id] = selected[ret'.b][id] )
            /\ \A id \in ParentOutputIDs(builders[ret'.b]) :
                   id \notin DOMAIN wallet'.spentOutputs
      ]_vars

(***************************************************************************)
(* Properties of one builder, checked under SpecBuilder.                   *)
(***************************************************************************)
\* The step is a call of op.
Calls(op) == ncalls' = ncalls + 1 /\ ret'.op = op

\* C13: once a call of Sign has appended at least one signature to the
\* builder's transaction, every later call of Sign on that builder, with no
\* Drop in between, returns errBuilderAlreadySigned and adds no signature.
C13_SignPoisons ==
    [][ (Calls("Sign") /\ builders[ret'.b].transactionSignatures # <<>>) =>
            /\ ret'.err = errBuilderAlreadySigned
            /\ builders'[ret'.b] = builders[ret'.b]
      ]_vars

C13_Witness ==
    /\ ret.op = "Sign"
    /\ ret.err = errBuilderAlreadySigned
    /\ builders[ret.b].transactionSignatures # <<>>
    /\ Len(builders[ret.b].transaction.TransactionSignatures) # 0

\* C14: if Sign returns an error because a funded input has no matching
\* wallet key, the builder is left poisoned, whichever funded input lacked
\* the key: the signed flag is set and the next Sign call returns
\* errBuilderAlreadySigned.
C14_FailedSignPoisons ==
    [][ /\ (Calls("Sign") /\ ret'.err = errCannotSign) => builders'[ret'.b].signed
        /\ ( /\ Calls("Sign")
             /\ ret.op = "Sign" /\ ret.err = errCannotSign /\ ret.b = ret'.b )
           => ret'.err = errBuilderAlreadySigned
      ]_vars

\* The siacoin outputs of wallet w: the confirmed ones and the ones of its
\* unconfirmed transactions that pay one of its addresses.
WalletOutputs(w) ==
    {w.siacoinOutputs[i] : i \in 1..Len(w.siacoinOutputs)}
    \cup UNION { {[id |-> SiacoinOutputID(w.unconfirmed[k], i - 1),
                   output |-> w.unconfirmed[k].SiacoinOutputs[i]] :
                     i \in {j \in 1..Len(w.unconfirmed[k].SiacoinOutputs) :
                              w.unconfirmed[k].SiacoinOutputs[j].UnlockHash
                                  \in DOMAIN w.keys}} :
                 k \in 1..Len(w.unconfirmed) }

\* o is neither dust nor still timelocked at the height of w.
Spendable(w, o) ==
    /\ o.output.Value >= DustThreshold
    /\ \/ o.output.UnlockHash \notin DOMAIN w.keys
       \/ w.keys[o.output.UnlockHash].UnlockConditions.Timelock <= w.height

\* o can be selected by a siacoin fund call on w.
Eligible(w, o) == Spendable(w, o) /\ ~Reserved(w, o.id, w.height)

RECURSIVE TotalValue(_)
TotalValue(outs) ==
    IF outs = {} THEN 0
    ELSE LET o == CHOOSE o \in outs : TRUE
         IN o.output.Value + TotalValue(outs \ {o})

\* What the siacoin fund call of this step was asked to raise.
Requested == ret'.arg

\* C15: a siacoin fund call whose eligible outputs sum to less than the
\* requested amount returns ErrIncompleteTransactions exactly when the
\* outputs that are neither dust nor timelocked, reserved or not, cover the
\* amount, and ErrLowBalance otherwise.
C15_ErrorKinds ==
    [][ LET eligible == {o \in WalletOutputs(wallet) : Eligible(wallet, o)}
            spendable == {o \in WalletOutputs(wallet) : Spendable(wallet, o)}
        IN (SiacoinFundCall /\ TotalValue(eligible) < Requested) =>
              /\ ret'.err \in {ErrIncompleteTransactions, ErrLowBalance}
              /\ ret'.err = ErrIncompleteTransactions <=> TotalValue(spendable) >= Requested
              /\ ( /\ wallet.siacoinOutputs = SingleOutputWallet.siacoinOutputs
                   /\ wallet.unconfirmed = <<>>
                   /\ Requested = 110 ) => ret'.err = ErrLowBalance
      ]_vars

C15_Witness ==
    /\ ret.op \in {"FundSiacoins", "FundSiacoinsForOutputs"}
    /\ ret.err = ErrLowBalance
    /\ \E o \in WalletOutputs(wallet) : Reserved(wallet, o.id, wallet.height)

\* The inputs the siacoin fund call of this step added for the outputs it
\* selected, in the order it added them.
FundedInputs ==
    LET tb == builders[ret'.b]
        tb1 == builders'[ret'.b]
    IN IF ret'.op = "FundSiacoins"
       THEN IF Len(tb1.parents) > Len(tb.parents)
            THEN tb1.parents[Len(tb1.parents)].SiacoinInputs
            ELSE <<>>
       ELSE SubSeq(tb1.transaction.SiacoinInputs,
                   Len(tb.transaction.SiacoinInputs) + 1,
                   Len(tb1.transaction.SiacoinInputs))

\* The value of the output of wallet w with this id.
ValueOf(w, id) == (CHOOSE o \in WalletOutputs(w) : o.id = id).output.Value

\* C16: on success the inputs chosen by a siacoin fund call are the shortest
\* prefix, in descending order of value, of the wallet outputs that are not
\* dust, not reserved within RespendTimeout and not timelocked, whose values
\* sum to at least the amount: they sum to at least the amount, and without
\* the last one to less.
C16_SelectionIsShortestPrefix ==
    [][ (SiacoinFundCall /\ ret'.err = nil) =>
          LET eligible == {o \in WalletOutputs(wallet) : Eligible(wallet, o)}
              chosen == FundedInputs
              n == Len(chosen)
              value(i) == ValueOf(wallet, chosen[i].ParentID)
              total == SumSeq([i \in 1..n |-> value(i)])
          IN /\ n >= 1
             /\ \A i \in 1..n : \E o \in eligible : o.id = chosen[i].ParentID
             /\ \A i, j \in 1..n : i # j => chosen[i].ParentID # chosen[j].ParentID
             /\ \A i \in 1..(n - 1) : value(i) >= value(i + 1)
             /\ \A o \in eligible :
                   o.id \notin NewlySelected => o.output.Value <= value(n)
             /\ total >= Requested
             /\ total - value(n) < Requested
      ]_vars

C16_Witness ==
    /\ ret.op = "FundSiacoins" /\ ret.err = nil
    /\ wallet.siacoinOutputs = MixedWallet.siacoinOutputs
    /\ Len(builders[ret.b].parents) >= 1
    /\ Len(builders[ret.b].parents[Len(builders[ret.b].parents)].SiacoinInputs) >= 2

\* The builder a step's call was made on, before and after the call.
Before == builders[ret'.b]

After == builders'[ret'.b]

\* C17: a successful FundSiacoins(amount) appends exactly one parent
\* transaction, whose output 0 has value amount, which has a second (refund)
\* output of value fund - amount exactly when the selected inputs' sum fund is
\* not amount, and whose outputs sum to its inputs; it appends exactly one
\* siacoin input, whose ParentID is the id of the parent's output 0; and
\* ViewAdded gains exactly the index of that parent and the index of that input.
C17_FundSiacoinsShape ==
    [][ (Calls("FundSiacoins") /\ ret'.err = nil) =>
          LET np == Len(Before.parents)
              ni == Len(Before.transaction.SiacoinInputs)
              parent == After.parents[np + 1]
              fund == SumSeq([i \in 1..Len(parent.SiacoinInputs) |->
                                ValueOf(wallet, parent.SiacoinInputs[i].ParentID)])
              outs == parent.SiacoinOutputs
          IN /\ Len(After.parents) = np + 1
             /\ SubSeq(After.parents, 1, np) = Before.parents
             /\ outs[1].Value = Requested
             /\ Len(outs) = IF fund # Requested THEN 2 ELSE 1
             /\ Len(outs) = 2 => outs[2].Value = fund - Requested
             /\ SumSeq([i \in 1..Len(outs) |-> outs[i].Value]) = fund
             /\ After.transaction =
                   [Before.transaction EXCEPT
                      !.SiacoinInputs = Append(@, After.transaction.SiacoinInputs[ni + 1])]
             /\ After.transaction.SiacoinInputs[ni + 1].ParentID = SiacoinOutputID(parent, 0)
             /\ After.newParents = Append(Before.newParents, np)
             /\ After.siacoinInputs = Append(Before.siacoinInputs, ni)
             /\ After.siafundInputs = Before.siafundInputs
             /\ After.transactionSignatures = Before.transactionSignatures ]_vars

\* FundSiacoins(50) succeeded on a builder registered with one parent: the new
\* parent is at index 1 and carries a refund output.
C17_Witness ==
    /\ ret.op = "FundSiacoins" /\ ret.err = nil
    /\ builders[ret.b].newParents = <<1>>
    /\ Len(builders[ret.b].parents[2].SiacoinOutputs) = 2

\* FundSiacoins(100) succeeded with inputs worth exactly 100: no refund output.
C17_WitnessExact ==
    /\ ret.op = "FundSiacoins" /\ ret.err = nil /\ ret.arg = 100
    /\ Len(builders[ret.b].parents[Len(builders[ret.b].parents)].SiacoinOutputs) = 1

\* C18: a successful FundSiacoinsForOutputs(outputs, fee) on an empty builder
\* leaves a transaction with no parent, whose SiacoinOutputs are the requested
\* outputs in order, followed by one refund output of value
\* fund - (sum(outputs) + fee) exactly when that value is not zero, whose
\* MinerFees is <<fee>> when fee > 0 and empty when fee = 0, and whose selected
\* inputs are worth the sum of its SiacoinOutputs plus the sum of its MinerFees.
C18_FundForOutputsShape ==
    [][ \A r \in Requests :
          ( /\ FundSiacoinsForOutputs("b1", r.outputs, r.fee)
            /\ ret'.err = nil
            /\ builders["b1"] = EmptyBuilder ) =>
          LET t == builders'["b1"].transaction
              n == Len(r.outputs)
              fund == SumSeq([i \in 1..Len(t.SiacoinInputs) |->
                                ValueOf(wallet, t.SiacoinInputs[i].ParentID)])
              wanted == SumSeq([i \in 1..n |-> r.outputs[i].Value]) + r.fee
              outs == t.SiacoinOutputs
          IN /\ builders'["b1"].parents = <<>>
             /\ builders'["b1"].newParents = <<>>
             /\ SubSeq(outs, 1, n) = r.outputs
             /\ Len(outs) = IF fund - wanted # 0 THEN n + 1 ELSE n
             /\ Len(outs) = n + 1 => outs[n + 1].Value = fund - wanted
             /\ t.MinerFees = IF r.fee > 0 THEN <<r.fee>> ELSE <<>>
             /\ fund = SumSeq([i \in 1..Len(outs) |-> outs[i].Value]) + SumSeq(t.MinerFees)
             /\ builders'["b1"].siacoinInputs = [i \in 1..Len(t.SiacoinInputs) |-> i - 1] ]_vars

\* FundSiacoinsForOutputs succeeded on an empty builder with a fee and a
\* refund: two requested outputs' worth of inputs, one fee, one refund.
C18_Witness ==
    /\ ret.op = "FundSiacoinsForOutputs" /\ ret.err = nil
    /\ builders["b1"].parents = <<>>
    /\ Len(builders["b1"].transaction.MinerFees) = 1
    /\ Len(builders["b1"].transaction.SiacoinOutputs) = 2
    /\ Len(builders["b1"].transaction.SiacoinInputs) = 2

\* FundSiacoinsForOutputs succeeded with no fee and no refund.
C18_WitnessExact ==
    /\ ret.op = "FundSiacoinsForOutputs" /\ ret.err = nil
    /\ builders["b1"].parents = <<>>
    /\ builders["b1"].transaction.MinerFees = <<>>
    /\ Len(builders["b1"].transaction.SiacoinOutputs) = 2
    /\ Len(builders["b1"].transaction.SiacoinInputs) = 1
    /\ wallet.siacoinOutputs = SingleOutputWallet.siacoinOutputs

(***************************************************************************)
(* The builder against the validator.  The consensus-state view the wallet *)
(* follows holds, at the wallet's height, the confirmed siacoin outputs of *)
(* the wallet's bucket; the outputs of the wallet's unconfirmed            *)
(* transactions are not in it.  Of a transaction validSiacoins reads       *)
(* SiacoinInputs, SiacoinOutputs, MinerFees and FileContracts, which the   *)
(* wallet's transactions have under the same names.                        *)
(***************************************************************************)
BucketView(bucket) ==
    [id \in {bucket[i].id : i \in 1..Len(bucket)} |->
        (CHOOSE e \in {bucket[i] : i \in 1..Len(bucket)} : e.id = id).output]

ViewOf(w) == [height |-> w.height, siacoinOutputs |-> BucketView(w.siacoinOutputs)]

\* The view extended with every siacoin output of the wallet's unconfirmed
\* transactions: what the view becomes once they are confirmed at this height.
RECURSIVE createdOutputs(_, _)
createdOutputs(txns, k) ==
    IF k > Len(txns) THEN <<>>
    ELSE [i \in 1..Len(txns[k].SiacoinOutputs) |->
             [id |-> SiacoinOutputID(txns[k], i - 1), output |-> txns[k].SiacoinOutputs[i]]]
         \o createdOutputs(txns, k + 1)

UnconfirmedViewOf(w) ==
    [height |-> w.height,
     siacoinOutputs |-> BucketView(w.siacoinOutputs \o createdOutputs(w.unconfirmed, 1))]

\* A step that is a call of NewTransaction(r.outputs, r.fee).
NewTransactionCall(r) ==
    /\ Calls("NewTransaction")
    /\ ret'.arg = [outputs |-> r.outputs, fee |-> r.fee]

\* The wallet's unreserved funds cover request r: the outputs a fund call may
\* select are worth at least the outputs of r and its fee.
SufficientFunds(w, r) ==
    TotalValue({o \in WalletOutputs(w) : Eligible(w, o)})
        >= SumSeq([i \in 1..Len(r.outputs) |-> r.outputs[i].Value]) + r.fee

ContainsAll(t, outputs) ==
    \A i \in 1..Len(outputs) : \E j \in 1..Len(t.SiacoinOutputs) : t.SiacoinOutputs[j] = outputs[i]

ReservationState(w) ==
    [reserved |-> {<<o.id, w.spentOutputs[o.id]>> :
                      o \in {x \in WalletOutputs(w) : x.id \in DOMAIN w.spentOutputs}},
     entries |-> Cardinality(DOMAIN w.spentOutputs)]

\* Fund, Drop, Fund on a fresh builder of wallet w leaves the reservation state
\* of Fund alone, for FundSiacoinsForOutputs and for FundSiacoins.
FundDropFundForOutputs(w, r) ==
    LET once == fundSiacoinsForOutputs(w, EmptyBuilder, r.outputs, r.fee)
        dropped == dropBuilder(once.w, once.tb)
        again == fundSiacoinsForOutputs(dropped, EmptyBuilder, r.outputs, r.fee)
    IN once.err = nil =>
          /\ again.err = nil
          /\ ReservationState(again.w) = ReservationState(once.w)

FundDropFundSiacoins(w, amount) ==
    LET once == fundSiacoins(w, EmptyBuilder, amount)
        dropped == dropBuilder(once.w, once.tb)
        again == fundSiacoins(dropped, EmptyBuilder, amount)
    IN once.err = nil =>
          /\ again.err = nil
          /\ ReservationState(again.w) = ReservationState(once.w)

\* C20: Drop on a freshly registered builder, whatever base transaction and
\* parents it was registered with, changes nothing in the wallet's
\* recently-spent table; and Fund, Drop, Fund leaves the same reservation state
\* as a single Fund.
C20_DropIsNeutral ==
    [][ /\ (Calls("Drop") /\ ret.op = "RegisterTransaction" /\ ret.b = ret'.b) =>
               wallet'.spentOutputs = wallet.spentOutputs
        /\ \A r \in Requests : FundDropFundForOutputs(wallet, r)
        /\ \A amount \in BuilderAmounts : FundDropFundSiacoins(wallet, amount) ]_vars

\* The second half of C20 alone.
C20_FundDropFund ==
    [][ /\ \A r \in Requests : FundDropFundForOutputs(wallet, r)
        /\ \A amount \in BuilderAmounts : FundDropFundSiacoins(wallet, amount) ]_vars

\* The ParentIDs of the inputs of builder tb that a Fund call recorded: the
\* inputs at the indices in tb.siacoinInputs and tb.siafundInputs.
RecordedParentIDs(tb) ==
    {tb.transaction.SiacoinInputs[tb.siacoinInputs[k] + 1].ParentID :
        k \in 1..Len(tb.siacoinInputs)}
    \cup {tb.transaction.SiafundInputs[tb.siafundInputs[k] + 1].ParentID :
            k \in 1..Len(tb.siafundInputs)}

\* The signatures a Sign step appended to the transaction.
NewSignatures ==
    SubSeq(After.transaction.TransactionSignatures,
           Len(Before.transaction.TransactionSignatures) + 1,
           Len(After.transaction.TransactionSignatures))

\* C21: Sign adds signatures only for the inputs recorded by Fund*: every
\* signature it appends has the ParentID of an input at an index in
\* tb.siacoinInputs or tb.siafundInputs; an input that was added with
\* AddSiacoinInput or AddSiafundInput or came with the registered base
\* transaction (and whose ParentID no recorded input has) gets no signature;
\* the signatures already present, and every other field, are left unchanged.
C21_SignOnlyRecordedInputs ==
    [][ Calls("Sign") =>
          LET t == Before.transaction
              n == Len(t.TransactionSignatures)
              recorded == RecordedParentIDs(Before)
              unrecorded == ( {t.SiacoinInputs[i].ParentID :
                                  i \in {j \in 1..Len(t.SiacoinInputs) :
                                           \A k \in 1..Len(Before.siacoinInputs) :
                                              Before.siacoinInputs[k] # j - 1}}
                              \cup {t.SiafundInputs[i].ParentID :
                                  i \in {j \in 1..Len(t.SiafundInputs) :
                                           \A k \in 1..Len(Before.siafundInputs) :
                                              Before.siafundInputs[k] # j - 1}} )
                            \ recorded
          IN /\ Len(After.transaction.TransactionSignatures) >= n
             /\ SubSeq(After.transaction.TransactionSignatures, 1, n) = t.TransactionSignatures
             /\ \A k \in 1..Len(NewSignatures) :
                   /\ NewSignatures[k].ParentID \in recorded
                   /\ NewSignatures[k].ParentID \notin unrecorded
             /\ \A f \in WalletFieldNames : After.transaction[f] = t[f]
             /\ After.parents = Before.parents ]_vars

\* Sign succeeded on the registered host transaction after a Fund call: the
\* host's input and signature are there, and Sign has appended its own.
C21_Witness ==
    /\ ret.op = "Sign" /\ ret.err = nil
    /\ Len(builders["b1"].transaction.SiacoinInputs) >= 2
    /\ builders["b1"].transaction.SiacoinInputs[1].ParentID = ConfirmedID("h1")
    /\ builders["b1"].transaction.TransactionSignatures[1] = HostTransaction.TransactionSignatures[1]
    /\ builders["b1"].transactionSignatures # <<>>

\* C22: the CoveredFields on every signature that Sign creates: with
\* wholeTransaction, WholeTransaction is set and the index list of every field
\* is empty; without it, WholeTransaction is unset and the list of each field
\* is 0..len-1 of that field at the time of the call; in both cases the list
\* of TransactionSignatures is the indices of the signatures that were present
\* before Sign started.
C22_SignCoveredFields ==
    [][ Calls("Sign") =>
          LET t == Before.transaction
              wholeTransaction == ret'.arg
          IN \A k \in 1..Len(NewSignatures) :
                LET cf == NewSignatures[k].CoveredFields
                IN /\ cf.WholeTransaction = wholeTransaction
                   /\ DOMAIN cf.fields = WalletFieldNames
                   /\ \A f \in WalletFieldNames :
                         cf.fields[f] = IF wholeTransaction THEN <<>>
                                        ELSE [i \in 1..Len(t[f]) |-> i - 1]
                   /\ cf.TransactionSignatures =
                         [i \in 1..Len(t.TransactionSignatures) |-> i - 1] ]_vars

\* Sign(false) succeeded on the registered host transaction after a Fund
\* call: its signatures cover the fields by index and the host's signature.
C22_Witness ==
    /\ ret.op = "Sign" /\ ret.err = nil /\ ret.arg = FALSE
    /\ Len(builders["b1"].transaction.TransactionSignatures) >= 2
    /\ builders["b1"].transaction.TransactionSignatures[2].CoveredFields.TransactionSignatures = <<0>>
    /\ builders["b1"].transaction.TransactionSignatures[2].CoveredFields.fields.SiacoinInputs # <<>>

\* Sign(true) succeeded in the same situation.
C22_WitnessWhole ==
    /\ ret.op = "Sign" /\ ret.err = nil /\ ret.arg = TRUE
    /\ Len(builders["b1"].transaction.TransactionSignatures) >= 2
    /\ builders["b1"].transaction.TransactionSignatures[2].CoveredFields.TransactionSignatures = <<0>>

(***************************************************************************)
(* addSignatures on its own.  The arguments (unlock conditions, spendable  *)
(* key, covered fields, parent id) are drawn at the start and kept in      *)
(* call; txn is the transaction the calls sign, ret what the last call     *)
(* returned.  Public keys may repeat in the unlock conditions and secret   *)
(* keys in the spendable key, and SignaturesRequired ranges from 0 to more *)
(* than the number of public keys.                                         *)
(***************************************************************************)
SignerKeys == {<<"seed", 0>>, <<"seed", 1>>, <<"other", 1>>}

SeqsUpTo(S, n) == UNION {[1..k -> S] : k \in 0..n}

AddSignaturesArguments ==
    { [uc |-> [Timelock |-> 0, PublicKeys |-> pks, SignaturesRequired |-> required],
       spendKey |-> [UnlockConditions |-> [Timelock |-> 0, PublicKeys |-> pks,
                                           SignaturesRequired |-> required],
                     SecretKeys |-> sks],
       cf |-> FullCoveredFields,
       parentID |-> ConfirmedID("o1")] :
        pks \in SeqsUpTo({PublicKey(k) : k \in SignerKeys}, MaxPublicKeys),
        required \in 0..MaxPublicKeys,
        sks \in SeqsUpTo(SignerKeys, MaxSecretKeys) }

InitAddSignatures ==
    /\ txn \in {BaseTransaction, HostTransaction}
    /\ call \in AddSignaturesArguments
    /\ ret = [op |-> "none", newSigIndices |-> <<>>]
    /\ ncalls = 0
    /\ state = <<>>
    /\ prev = <<>>
    /\ wallet = <<>>
    /\ builders = <<>>
    /\ selected = <<>>

\* One call addSignatures(&txn, cf, uc, parentID, spendKey).
AddSignatures ==
    LET r == addSignatures(txn, call.cf, call.uc, call.parentID, call.spendKey)
    IN /\ ncalls < MaxAddCalls
       /\ ncalls' = ncalls + 1
       /\ txn' = r.txn
       /\ ret' = [op |-> "addSignatures", newSigIndices |-> r.newSigIndices]
       /\ UNCHANGED <<state, call, prev, wallet, builders, selected>>

NextAddSignatures == AddSignatures

SpecAddSignatures == InitAddSignatures /\ [][NextAddSignatures]_vars

\* The signatures the addSignatures call of this step appended.
AppendedSignatures ==
    SubSeq(txn'.TransactionSignatures,
           Len(txn.TransactionSignatures) + 1, Len(txn'.TransactionSignatures))

\* C23: for every unlock conditions uc and key set, addSignatures appends at
\* most uc.SignaturesRequired signatures, SignaturesRequired = 0 included, and
\* at most one per public-key index.
C23_AtMostRequired ==
    [][ ncalls' = ncalls + 1 =>
          /\ Len(AppendedSignatures) <= call.uc.SignaturesRequired
          /\ \A i, j \in 1..Len(AppendedSignatures) :
                i # j => AppendedSignatures[i].PublicKeyIndex # AppendedSignatures[j].PublicKeyIndex
      ]_vars

\* The same for unlock conditions that require at least one signature.
C23_AtMostRequiredPositive ==
    [][ (ncalls' = ncalls + 1 /\ call.uc.SignaturesRequired >= 1) =>
          /\ Len(AppendedSignatures) <= call.uc.SignaturesRequired
          /\ \A i, j \in 1..Len(AppendedSignatures) :
                i # j => AppendedSignatures[i].PublicKeyIndex # AppendedSignatures[j].PublicKeyIndex
      ]_vars

\* C24: the signatures one addSignatures call appends have strictly increasing
\* PublicKeyIndex and occupy consecutive positions starting at the previous
\* length of txn.TransactionSignatures; those positions are exactly the
\* returned newSigIndices; the signatures that were there stay as they were.
C24_AppendedInOrder ==
    [][ ncalls' = ncalls + 1 =>
          LET n == Len(txn.TransactionSignatures)
              new == AppendedSignatures
          IN /\ Len(txn'.TransactionSignatures) >= n
             /\ SubSeq(txn'.TransactionSignatures, 1, n) = txn.TransactionSignatures
             /\ \A i, j \in 1..Len(new) :
                   i < j => new[i].PublicKeyIndex < new[j].PublicKeyIndex
             /\ ret'.newSigIndices = [k \in 1..Len(new) |-> n + k - 1]
             /\ \A k \in 1..Len(new) :
                   /\ new[k].ParentID = call.parentID
                   /\ new[k].PublicKeyIndex < Len(call.uc.PublicKeys)
                   /\ PublicKey(new[k].Signature.signer) =
                         call.uc.PublicKeys[new[k].PublicKeyIndex + 1] ]_vars

\* A second call has appended two signatures behind those of the first.
C24_Witness ==
    /\ ret.op = "addSignatures"
    /\ Len(ret.newSigIndices) >= 2
    /\ ret.newSigIndices[1] >= 2

(***************************************************************************)
(* Wallet.SignTransaction, SignTransaction and signTransaction.  Here      *)
(* txn is the transaction the caller passes by reference, wallet is        *)
(* [unlocked, keys], and ret is [op, toSign, err, derived], derived being  *)
(* the number of keys the seed-based call derived.                         *)
(***************************************************************************)
ErrLockedWallet == "wallet must be unlocked before it can be used"
errToSignEmpty == "toSign cannot be empty"
errNoSignature == "toSign references signatures not present in transaction"
errNoInput == "toSign references IDs not present in transaction"
errNoSigningKey == "could not locate signing key"

keysPerBatch == 1000
maxDerivedKeys == 1000000

\* findUnlockConditions: the unlock conditions of the first siacoin input, or
\* else the first siafund input, with ParentID id.
findUnlockConditions(t, id) ==
    LET sc == {i \in 1..Len(t.SiacoinInputs) : t.SiacoinInputs[i].ParentID = id}
        sf == {i \in 1..Len(t.SiafundInputs) : t.SiafundInputs[i].ParentID = id}
        first(S) == CHOOSE i \in S : \A j \in S : i <= j
    IN IF sc # {} THEN [uc |-> t.SiacoinInputs[first(sc)].UnlockConditions, ok |-> TRUE]
       ELSE IF sf # {} THEN [uc |-> t.SiafundInputs[first(sf)].UnlockConditions, ok |-> TRUE]
       ELSE [uc |-> ZeroUnlockConditions, ok |-> FALSE]

\* findSigningKey: the first secret key of keys[uc.UnlockHash()] whose public
\* key is uc.PublicKeys[pubkeyIndex].
findSigningKey(keys, uc, pubkeyIndex) ==
    IF pubkeyIndex >= Len(uc.PublicKeys) THEN [sk |-> <<"none", 0>>, ok |-> FALSE]
    ELSE IF UnlockHash(uc) \notin DOMAIN keys THEN [sk |-> <<"none", 0>>, ok |-> FALSE]
    ELSE LET sks == keys[UnlockHash(uc)].SecretKeys
             matching == {j \in 1..Len(sks) : PublicKey(sks[j]) = uc.PublicKeys[pubkeyIndex + 1]}
         IN IF matching = {} THEN [sk |-> <<"none", 0>>, ok |-> FALSE]
            ELSE [sk |-> sks[CHOOSE j \in matching : \A k \in matching : j <= k], ok |-> TRUE]

\* The loop of signTransaction over toSign from position k on: [txn, err].
\* An id that cannot be signed ends the loop with an error; the signatures
\* written for the ids before it stay in txn.
RECURSIVE signTransactionLoop(_, _, _, _)
signTransactionLoop(t, keys, toSign, k) ==
    IF k > Len(toSign) THEN [txn |-> t, err |-> nil]
    ELSE LET id == toSign[k]
             found == {i \in 1..Len(t.TransactionSignatures) :
                          t.TransactionSignatures[i].ParentID = id}
         IN IF found = {} THEN [txn |-> t, err |-> errNoSignature]
            ELSE LET sigIndex == (CHOOSE i \in found : \A j \in found : i <= j) - 1
                     u == findUnlockConditions(t, id)
                     key == findSigningKey(keys, u.uc,
                               t.TransactionSignatures[sigIndex + 1].PublicKeyIndex)
                     encodedSig == SignHash(SigHash(t, sigIndex), key.sk)
                 IN IF ~u.ok THEN [txn |-> t, err |-> errNoInput]
                    ELSE IF ~key.ok THEN [txn |-> t, err |-> errNoSigningKey]
                    ELSE signTransactionLoop(
                            [t EXCEPT !.TransactionSignatures[sigIndex + 1].Signature = encodedSig],
                            keys, toSign, k + 1)

signTransaction(t, keys, toSign) == signTransactionLoop(t, keys, toSign, 1)

\* The ParentIDs, in order, of the inputs of t[field] at the positions where
\* the input's unlock hash is a key of keys.
RECURSIVE ownedInputIDs(_, _, _, _)
ownedInputIDs(t, keys, field, i) ==
    IF i > Len(t[field]) THEN <<>>
    ELSE (IF UnlockHash(t[field][i].UnlockConditions) \in DOMAIN keys
          THEN <<t[field][i].ParentID>> ELSE <<>>)
         \o ownedInputIDs(t, keys, field, i + 1)

walletSignTransaction_SignsAllOwned(w, t, toSign) ==
    IF ~w.unlocked THEN [txn |-> t, err |-> ErrLockedWallet]
    ELSE signTransaction(t, w.keys,
            ownedInputIDs(t, w.keys, "SiacoinInputs", 1)
            \o ownedInputIDs(t, w.keys, "SiafundInputs", 1))

\* w.SignTransaction(txn, toSign): [txn, err].
walletSignTransaction(w, t, toSign) ==
    IF ~w.unlocked THEN [txn |-> t, err |-> ErrLockedWallet]
    ELSE LET toSign1 == IF Len(toSign) = 0
                        THEN ownedInputIDs(t, w.keys, "SiacoinInputs", 1)
                             \o ownedInputIDs(t, w.keys, "SiafundInputs", 1)
                        ELSE toSign
         IN signTransaction(t, w.keys, toSign1)

\* The unlock conditions of the inputs of t that are the standard conditions
\* of key number i of seed, for some i.
seedConditions(t, seed) ==
    LET ucs == {t.SiacoinInputs[i].UnlockConditions : i \in 1..Len(t.SiacoinInputs)}
               \cup {t.SiafundInputs[i].UnlockConditions : i \in 1..Len(t.SiafundInputs)}
    IN {uc \in ucs : /\ Len(uc.PublicKeys) = 1
                     /\ uc.PublicKeys[1][2][1] = seed
                     /\ uc = StandardConditions(<<seed, uc.PublicKeys[1][2][2]>>, 0)}

\* The keys map of the seed-based SignTransaction once the keys of indices
\* 0..n-1 of seed have been generated, restricted to the unlock hashes
\* signTransaction can look up: those of the inputs of t.
generatedKeys(t, seed, n) ==
    LET derived == {uc \in seedConditions(t, seed) : uc.PublicKeys[1][2][2] < n}
    IN [uh \in {UnlockHash(uc) : uc \in derived} |->
          LET uc == CHOOSE c \in derived : UnlockHash(c) = uh
          IN StandardKey(uc.PublicKeys[1][2], 0)]

\* The batches of the seed-based SignTransaction, keyIndex keys being
\* generated so far: [txn, err, derived].  A failed attempt that a second
\* attempt with the same keys would leave as it is repeats identically until
\* a batch brings a key of an input of txn, so the batches in between are
\* passed over in one step.
RECURSIVE seedSignLoop(_, _, _, _)
seedSignLoop(t, seed, toSign, keyIndex) ==
    IF keyIndex < maxDerivedKeys
    THEN LET n == keyIndex + keysPerBatch
             keys == generatedKeys(t, seed, n)
             r == signTransaction(t, keys, toSign)
             again == signTransaction(r.txn, keys, toSign)
             later == {uc.PublicKeys[1][2][2] : uc \in seedConditions(t, seed)}
                         \cap (n..(maxDerivedKeys - 1))
             first == CHOOSE i \in later : \A j \in later : i <= j
             nextChange == IF later = {} THEN maxDerivedKeys
                           ELSE (first \div keysPerBatch) * keysPerBatch
         IN IF r.err = nil
            THEN [txn |-> r.txn, err |-> nil, derived |-> n]
            ELSE IF again.txn = r.txn
            THEN seedSignLoop(r.txn, seed, toSign, nextChange)
            ELSE seedSignLoop(r.txn, seed, toSign, n)
    ELSE LET r == signTransaction(t, generatedKeys(t, seed, keyIndex), toSign)
         IN [txn |-> r.txn, err |-> r.err, derived |-> keyIndex]

seedSignTransaction_FirstBatch(t, seed, toSign) ==
    LET r == signTransaction(t, generatedKeys(t, seed, keysPerBatch), toSign)
    IN [txn |-> r.txn, err |-> IF Len(toSign) = 0 THEN errToSignEmpty ELSE r.err,
        derived |-> keysPerBatch]

\* SignTransaction(txn, seed, toSign): [txn, err, derived].
seedSignTransaction(t, seed, toSign) ==
    IF Len(toSign) = 0 THEN [txn |-> t, err |-> errToSignEmpty, derived |-> 0]
    ELSE seedSignLoop(t, seed, toSign, 0)

\* A call of w.SignTransaction(&txn, toSign).
WalletSignTransaction(toSign) ==
    LET r == walletSignTransaction(wallet, txn, toSign)
    IN /\ ncalls < MaxSignCalls
       /\ ncalls' = ncalls + 1
       /\ txn' = r.txn
       /\ ret' = [op |-> "Wallet.SignTransaction", toSign |-> toSign, err |-> r.err,
                  derived |-> 0]
       /\ UNCHANGED <<state, call, prev, wallet, builders, selected>>

\* A call of SignTransaction(&txn, seed, toSign).
SeedSignTransaction(seed, toSign) ==
    LET r == seedSignTransaction(txn, seed, toSign)
    IN /\ ncalls < MaxSignCalls
       /\ ncalls' = ncalls + 1
       /\ txn' = r.txn
       /\ ret' = [op |-> "SignTransaction", toSign |-> toSign, err |-> r.err,
                  derived |-> r.derived]
       /\ UNCHANGED <<state, call, prev, wallet, builders, selected>>

\* Transactions handed to SignTransaction.  A signature entry to be signed has
\* an empty Signature.
SignatureEntry(id, publicKeyIndex) ==
    [ParentID |-> id, CoveredFields |-> FullCoveredFields,
     PublicKeyIndex |-> publicKeyIndex, Signature |-> <<>>]

\* A key of the wallet's seed beyond the first batch of generated keys.
keyFar == StandardKey(<<"seed", keysPerBatch + 500>>, 0)

\* A siacoin input and a siafund input of the wallet and the host's input,
\* with the host's signature and an entry for each of the wallet's inputs.
JointTransaction ==
    [HostTransaction EXCEPT
        !.SiacoinInputs = << [ParentID |-> ConfirmedID("o1"),
                              UnlockConditions |-> keyA.UnlockConditions] >> \o @,
        !.SiafundInputs = << [ParentID |-> ConfirmedID("f1"),
                              UnlockConditions |-> keyA.UnlockConditions,
                              ClaimUnlockHash |-> addrA] >>,
        !.TransactionSignatures = @ \o << SignatureEntry(ConfirmedID("o1"), 0),
                                          SignatureEntry(ConfirmedID("f1"), 0) >>]

\* Two inputs of the wallet, the second without a signature entry.
IncompleteTransaction ==
    [EmptyWalletTransaction EXCEPT
        !.SiacoinInputs = << [ParentID |-> ConfirmedID("o1"),
                              UnlockConditions |-> keyA.UnlockConditions],
                             [ParentID |-> ConfirmedID("o2"),
                              UnlockConditions |-> keyA.UnlockConditions] >>,
        !.TransactionSignatures = << SignatureEntry(ConfirmedID("o1"), 0) >>]

\* An input of the wallet and an input of the far key of the wallet's seed.
FarTransaction ==
    [EmptyWalletTransaction EXCEPT
        !.SiacoinInputs = << [ParentID |-> ConfirmedID("o1"),
                              UnlockConditions |-> keyA.UnlockConditions],
                             [ParentID |-> ConfirmedID("o7"),
                              UnlockConditions |-> keyFar.UnlockConditions] >>,
        !.TransactionSignatures = << SignatureEntry(ConfirmedID("o1"), 0),
                                     SignatureEntry(ConfirmedID("o7"), 0) >>]

ToSigns ==
    { <<>>,
      <<ConfirmedID("o1")>>,
      <<ConfirmedID("f1"), ConfirmedID("o1")>>,
      <<ConfirmedID("h1")>>,
      <<ConfirmedID("o1"), ConfirmedID("o7")>>,
      <<ConfirmedID("zz")>> }

Seeds == {"seed", "other"}

InitSignTransaction ==
    /\ txn \in {JointTransaction, IncompleteTransaction, FarTransaction}
    /\ wallet \in {[unlocked |-> u, keys |-> WalletKeys] : u \in BOOLEAN}
    /\ ret = [op |-> "none", toSign |-> <<>>, err |-> nil, derived |-> 0]
    /\ ncalls = 0
    /\ state = <<>>
    /\ call = <<>>
    /\ prev = <<>>
    /\ builders = <<>>
    /\ selected = <<>>

NextSignTransaction ==
    \/ \E toSign \in ToSigns : WalletSignTransaction(toSign)
    \/ \E seed \in Seeds : \E toSign \in ToSigns : SeedSignTransaction(seed, toSign)

SpecSignTransaction == InitSignTransaction /\ [][NextSignTransaction]_vars

\* The inputs of txn, siacoin and siafund, as [ParentID, UnlockConditions].
InputsOf(t) ==
    {[ParentID |-> t.SiacoinInputs[i].ParentID,
      UnlockConditions |-> t.SiacoinInputs[i].UnlockConditions] : i \in 1..Len(t.SiacoinInputs)}
    \cup {[ParentID |-> t.SiafundInputs[i].ParentID,
           UnlockConditions |-> t.SiafundInputs[i].UnlockConditions] : i \in 1..Len(t.SiafundInputs)}

\* The ParentIDs the Wallet.SignTransaction call of this step is to sign: the
\* named ones, or with an empty toSign those of the inputs whose unlock hash is
\* a wallet key.
EffectiveToSign ==
    IF ret'.toSign = <<>>
    THEN {in.ParentID : in \in {x \in InputsOf(txn) :
                                   UnlockHash(x.UnlockConditions) \in DOMAIN wallet.keys}}
    ELSE {ret'.toSign[i] : i \in 1..Len(ret'.toSign)}

\* Signature entry k of txn' carries the signature of its input's key over
\* the sighash of the transaction.
SignedBy(k, keys) ==
    LET sig == txn'.TransactionSignatures[k]
        in == CHOOSE x \in InputsOf(txn) : x.ParentID = sig.ParentID
    IN /\ \E x \in InputsOf(txn) : x.ParentID = sig.ParentID
       /\ sig.PublicKeyIndex < Len(in.UnlockConditions.PublicKeys)
       /\ sig.Signature # <<>>
       /\ PublicKey(sig.Signature.signer) = in.UnlockConditions.PublicKeys[sig.PublicKeyIndex + 1]
       /\ sig.Signature.signer \in
             {keys[UnlockHash(in.UnlockConditions)].SecretKeys[j] :
                 j \in 1..Len(keys[UnlockHash(in.UnlockConditions)].SecretKeys)}
       /\ sig.Signature.hash = SigHash(txn', k - 1)

\* txn' is txn but for the Signature fields of its signature entries.
OnlySignaturesDiffer ==
    /\ \A f \in WalletFieldNames : txn'[f] = txn[f]
    /\ Len(txn'.TransactionSignatures) = Len(txn.TransactionSignatures)
    /\ \A k \in 1..Len(txn.TransactionSignatures) :
          Unsigned(txn'.TransactionSignatures[k]) = Unsigned(txn.TransactionSignatures[k])

\* C25: Wallet.SignTransaction on an unlocked wallet signs, with an empty
\* toSign, every siacoin and siafund input of txn whose unlock hash is a wallet
\* key and, with a non-empty toSign, exactly the named ParentIDs (when it
\* returns nil, the signature entry of each of them is signed); a signature
\* entry whose ParentID is not among them keeps its Signature, whatever is
\* returned.  On a locked wallet it returns ErrLockedWallet and leaves txn
\* unchanged.
C25_WalletSignTransaction ==
    [][ (ncalls' = ncalls + 1 /\ ret'.op = "Wallet.SignTransaction") =>
          IF wallet.unlocked
          THEN /\ OnlySignaturesDiffer
               /\ \A k \in 1..Len(txn.TransactionSignatures) :
                     txn.TransactionSignatures[k].ParentID \notin EffectiveToSign
                        => txn'.TransactionSignatures[k] = txn.TransactionSignatures[k]
               /\ ret'.err = nil =>
                     \A id \in EffectiveToSign :
                        \E k \in 1..Len(txn'.TransactionSignatures) :
                           /\ txn'.TransactionSignatures[k].ParentID = id
                           /\ SignedBy(k, wallet.keys)
          ELSE /\ ret'.err = ErrLockedWallet
               /\ txn' = txn ]_vars

\* Wallet.SignTransaction with an empty toSign has signed the wallet's siacoin
\* input and siafund input of the joint transaction and left the host's
\* signature alone.
C25_Witness ==
    /\ ret.op = "Wallet.SignTransaction" /\ ret.err = nil /\ ret.toSign = <<>>
    /\ txn.SiacoinInputs = JointTransaction.SiacoinInputs
    /\ txn.TransactionSignatures[1] = JointTransaction.TransactionSignatures[1]
    /\ txn.TransactionSignatures[2].Signature # <<>>
    /\ txn.TransactionSignatures[3].Signature # <<>>

\* C26: the seed-based SignTransaction called with an empty toSign returns an
\* error, derives no key and does not modify txn.
C26_SeedNeedsToSign ==
    [][ (ncalls' = ncalls + 1 /\ ret'.op = "SignTransaction" /\ ret'.toSign = <<>>) =>
          /\ ret'.err = errToSignEmpty
          /\ ret'.derived = 0
          /\ txn' = txn ]_vars

\* The seed-based SignTransaction was called with an empty toSign on a
\* transaction with inputs of the seed that are still to be signed.
C26_Witness ==
    /\ ret.op = "SignTransaction" /\ ret.toSign = <<>> /\ ret.err = errToSignEmpty
    /\ ncalls = 1
    /\ txn = JointTransaction

\* An id signTransaction can sign: txn has a signature entry and an input
\* with that ParentID, the entry's PublicKeyIndex is within the input's public
\* keys, and keys holds the secret key of that public key.
Signable(t, keys, id) ==
    /\ \E k \in 1..Len(t.TransactionSignatures) : t.TransactionSignatures[k].ParentID = id
    /\ \E in \in InputsOf(t) : in.ParentID = id
    /\ LET first == CHOOSE k \in 1..Len(t.TransactionSignatures) :
                        /\ t.TransactionSignatures[k].ParentID = id
                        /\ \A j \in 1..(k - 1) : t.TransactionSignatures[j].ParentID # id
           uc    == findUnlockConditions(t, id).uc
           index == t.TransactionSignatures[first].PublicKeyIndex
       IN  /\ index < Len(uc.PublicKeys)
           /\ UnlockHash(uc) \in DOMAIN keys
           /\ \E j \in 1..Len(keys[UnlockHash(uc)].SecretKeys) :
                  PublicKey(keys[UnlockHash(uc)].SecretKeys[j]) = uc.PublicKeys[index + 1]

\* A step that calls signTransaction(txn, wallet.keys, toSign) with the ids
\* the caller named.
SignTransactionCall ==
    /\ ncalls' = ncalls + 1
    /\ ret'.op = "Wallet.SignTransaction"
    /\ wallet.unlocked
    /\ ret'.toSign # <<>>

\* C39: signTransaction returns an error exactly when some id of toSign
\* cannot be signed, and when it returns an error no Signature of txn has been
\* modified.
C39_SignAllOrNothing ==
    [][ SignTransactionCall =>
          /\ ret'.err # nil <=>
                \E i \in 1..Len(ret'.toSign) : ~Signable(txn, wallet.keys, ret'.toSign[i])
          /\ ret'.err # nil => txn' = txn ]_vars

\* What holds: an error exactly when some id cannot be signed, and on an
\* error the entries of the ids from the first one that cannot be signed on
\* are unmodified, while the ids before it are signed.
C39_SignUpToFailure ==
    [][ SignTransactionCall =>
          /\ ret'.err # nil <=>
                \E i \in 1..Len(ret'.toSign) : ~Signable(txn, wallet.keys, ret'.toSign[i])
          /\ ret'.err # nil =>
                LET bad == CHOOSE i \in 1..Len(ret'.toSign) :
                              /\ ~Signable(txn, wallet.keys, ret'.toSign[i])
                              /\ \A j \in 1..(i - 1) : Signable(txn, wallet.keys, ret'.toSign[j])
                IN  /\ OnlySignaturesDiffer
                    /\ \A k \in 1..Len(txn.TransactionSignatures) :
                          txn.TransactionSignatures[k].ParentID
                                \notin {ret'.toSign[j] : j \in 1..(bad - 1)}
                             => txn'.TransactionSignatures[k] = txn.TransactionSignatures[k]
                    /\ \A j \in 1..(bad - 1) :
                          \E k \in 1..Len(txn'.TransactionSignatures) :
                             /\ txn'.TransactionSignatures[k].ParentID = ret'.toSign[j]
                             /\ SignedBy(k, wallet.keys) ]_vars

(***************************************************************************)
(* The wallet lock.  Several callers run FundSiacoins,                     *)
(* FundSiacoinsForOutputs, FundSiafunds, Sign, Drop and                    *)
(* Wallet.SignTransaction, each on a builder of its own, against one       *)
(* wallet.mu, a sync.RWMutex.  Here state is the mutex, [writer, readers], *)
(* call gives every caller's [op, pc, defers], ret is the last return.  A  *)
(* caller is idle, has entered a call (before the lock), waits in Lock or  *)
(* RLock, or is locked (holds the lock and runs the body).  A goroutine in *)
(* Lock is a pending writer, and RLock does not pass a pending writer.     *)
(***************************************************************************)
Callers == {"c1", "c2", "c3"}

LockedOperations ==
    {"FundSiacoins", "FundSiacoinsForOutputs", "FundSiafunds", "Sign", "Drop",
     "Wallet.SignTransaction"}

errDatabase == "database error"

\* How each call takes wallet.mu.
lockCall(op) ==
    IF op \in {"Sign", "Wallet.SignTransaction"} THEN "RLock" ELSE "Lock"

deferredUnlock_SignKeepsLock(op) ==
    IF op = "Sign" THEN "none"
    ELSE IF op = "Wallet.SignTransaction" THEN "RUnlock" ELSE "Unlock"

\* What each call defers right after taking wallet.mu.
deferredUnlock(op) ==
    IF op \in {"Sign", "Wallet.SignTransaction"} THEN "RUnlock" ELSE "Unlock"

\* The returns of each call before it takes wallet.mu.
returnsBeforeLock(op) ==
    CASE op \in {"FundSiacoins", "FundSiacoinsForOutputs"} -> {errDatabase}
      [] op = "Sign" -> {errBuilderAlreadySigned}
      [] OTHER -> {}

\* The returns of each call while it holds wallet.mu.
returnsAfterLock(op) ==
    CASE op \in {"FundSiacoins", "FundSiacoinsForOutputs", "FundSiafunds"} ->
            {errDatabase, ErrIncompleteTransactions, ErrLowBalance, nil}
      [] op = "Sign" -> {errCannotSign, nil}
      [] op = "Drop" -> {nil}
      [] op = "Wallet.SignTransaction" ->
            {ErrLockedWallet, errNoSignature, errNoInput, errNoSigningKey, nil}

IdleCaller == [op |-> "none", pc |-> "idle", defers |-> <<>>]

PendingWriters == {c \in Callers : call[c].pc = "waiting" /\ lockCall(call[c].op) = "Lock"}

InitLock ==
    /\ state = [writer |-> "none", readers |-> {}]
    /\ call = [c \in Callers |-> IdleCaller]
    /\ ret = [op |-> "none", b |-> "none", err |-> nil]
    /\ ncalls = 0
    /\ txn = <<>>
    /\ prev = <<>>
    /\ wallet = <<>>
    /\ builders = <<>>
    /\ selected = <<>>

lvars == <<txn, prev, wallet, builders, selected>>

\* Caller c enters op.
Enter(c, op) ==
    /\ call[c].pc = "idle"
    /\ ncalls < MaxLockCalls
    /\ ncalls' = ncalls + 1
    /\ call' = [call EXCEPT ![c] = [op |-> op, pc |-> "entered", defers |-> <<>>]]
    /\ UNCHANGED <<state, ret, lvars>>

\* Caller c returns err from the part of its call that precedes the lock.
ReturnBeforeLock(c, err) ==
    /\ call[c].pc = "entered"
    /\ err \in returnsBeforeLock(call[c].op)
    /\ call' = [call EXCEPT ![c] = IdleCaller]
    /\ ret' = [op |-> call[c].op, b |-> c, err |-> err]
    /\ UNCHANGED <<state, ncalls, lvars>>

\* Caller c calls mu.Lock() or mu.RLock().
RequestLock(c) ==
    /\ call[c].pc = "entered"
    /\ call' = [call EXCEPT ![c].pc = "waiting"]
    /\ UNCHANGED <<state, ret, ncalls, lvars>>

\* mu.Lock() or mu.RLock() returns to caller c, which defers the unlock.
AcquireLock(c) ==
    /\ call[c].pc = "waiting"
    /\ state.writer = "none"
    /\ IF lockCall(call[c].op) = "Lock"
       THEN /\ state.readers = {}
            /\ state' = [state EXCEPT !.writer = c]
       ELSE /\ PendingWriters = {}
            /\ state' = [state EXCEPT !.readers = @ \cup {c}]
    /\ call' = [call EXCEPT ![c].pc = "locked",
                            ![c].defers = <<deferredUnlock(call[c].op)>>]
    /\ UNCHANGED <<ret, ncalls, lvars>>

\* The deferred calls of a returning caller c, applied to mutex mu.
RECURSIVE runDefers(_, _, _)
runDefers(mu, c, defers) ==
    IF defers = <<>> THEN mu
    ELSE LET d == defers[Len(defers)]
             mu1 == IF d = "Unlock" THEN [mu EXCEPT !.writer = "none"]
                    ELSE IF d = "RUnlock" THEN [mu EXCEPT !.readers = @ \ {c}]
                    ELSE mu
         IN runDefers(mu1, c, SubSeq(defers, 1, Len(defers) - 1))

\* Caller c returns err from the body of its call.
ReturnAfterLock(c, err) ==
    /\ call[c].pc = "locked"
    /\ err \in returnsAfterLock(call[c].op)
    /\ state' = runDefers(state, c, call[c].defers)
    /\ call' = [call EXCEPT ![c] = IdleCaller]
    /\ ret' = [op |-> call[c].op, b |-> c, err |-> err]
    /\ UNCHANGED <<ncalls, lvars>>

LockErrors ==
    {errDatabase, errBuilderAlreadySigned, ErrIncompleteTransactions, ErrLowBalance,
     errCannotSign, ErrLockedWallet, errNoSignature, errNoInput, errNoSigningKey, nil}

NextLock ==
    \/ \E c \in Callers : \E op \in LockedOperations : Enter(c, op)
    \/ \E c \in Callers : \E err \in LockErrors : ReturnBeforeLock(c, err)
    \/ \E c \in Callers : RequestLock(c)
    \/ \E c \in Callers : AcquireLock(c)
    \/ \E c \in Callers : \E err \in LockErrors : ReturnAfterLock(c, err)

SpecLock == InitLock /\ [][NextLock]_vars

\* Caller c holds wallet.mu.
Holds(c) == state.writer = c \/ c \in state.readers

\* C27: every return of FundSiacoins, FundSiacoinsForOutputs, FundSiafunds,
\* Sign, Drop and Wallet.SignTransaction, on success and on every error path,
\* leaves the wallet lock released; the Fund calls and Drop hold it
\* exclusively, Sign and SignTransaction as readers; and no interleaving of
\* these calls deadlocks: while a caller waits for the lock, the lock can be
\* acquired or a holder can return.
C27_LockReleased ==
    /\ \A c \in Callers :
          /\ call[c].pc # "locked" => ~Holds(c)
          /\ call[c].pc = "locked" =>
                IF call[c].op \in {"Sign", "Wallet.SignTransaction"}
                THEN c \in state.readers /\ state.writer = "none"
                ELSE state.writer = c /\ state.readers = {}
    /\ state.writer \in Callers \cup {"none"}
    /\ state.readers \subseteq Callers
    /\ (\E c \in Callers : call[c].pc = "waiting") =>
          ENABLED ( \/ \E c \in Callers : AcquireLock(c)
                    \/ \E c \in Callers : \E err \in LockErrors : ReturnAfterLock(c, err) )

\* A Fund call has returned an error from under the lock while another
\* caller reads under the lock and a third waits to write.
C27_Witness ==
    /\ ret.op = "FundSiacoins" /\ ret.err = ErrLowBalance
    /\ call[ret.b].pc = "idle"
    /\ \E c \in Callers : call[c].pc = "locked" /\ call[c].op = "Sign"
    /\ \E c \in Callers : call[c].pc = "waiting" /\ call[c].op = "Drop"

(***************************************************************************)
(* The contract manager's persistence                                      *)
(* (modules/host/contractmanager/persist.go).                              *)
(*                                                                         *)
(* Under SpecPersist the variables hold:                                   *)
(*   state    the ContractManager: sectorSalt, storageFolders (by index),  *)
(*            sectorLocations (by sectorID)                                *)
(*   builders the memory of the process: the arrays that []uint64 slices   *)
(*            point into, by address; a slice is modelled by its address,  *)
(*            so two slices made from one array see each other's writes    *)
(*   wallet   the disk: the settings file and, by path, the metadata and   *)
(*            sector files of the storage folders                          *)
(*   call     the process: its position in start-up and its open files     *)
(*   ret      the last call and what it returned                           *)
(*   ncalls   the number of calls made                                     *)
(***************************************************************************)
storageFolderGranularity == 64
sectorMetadataDiskSize == 14

\* A uint64 is the set of its set bit positions, 0..63; a byte is 0..255.
emptyMap == [x \in {} |-> 0]
mapPut(f, k, v) == [x \in DOMAIN f \cup {k} |-> IF x = k THEN v ELSE f[x]]

\* The bit of slot sectorIndex: bit sectorIndex % 64 of word sectorIndex / 64.
usageBit(usage, sectorIndex) ==
    (sectorIndex % storageFolderGranularity)
        \in usage[(sectorIndex \div storageFolderGranularity) + 1]

setUsage(usage, sectorIndex) ==
    [usage EXCEPT ![(sectorIndex \div storageFolderGranularity) + 1] =
        @ \cup {sectorIndex % storageFolderGranularity}]

clearUsage(usage, sectorIndex) ==
    [usage EXCEPT ![(sectorIndex \div storageFolderGranularity) + 1] =
        @ \ {sectorIndex % storageFolderGranularity}]

\* The slots whose bit is set, in increasing order.
usageSectors(usage) ==
    LET used == {k \in 0..(Len(usage) * storageFolderGranularity - 1) : usageBit(usage, k)}
    IN  [i \in 1..Cardinality(used) |->
            CHOOSE k \in used : Cardinality({j \in used : j < k}) = i - 1]

\* for _, sectorIndex := range sf.queuedSectors { sf.clearUsage(sectorIndex) }
RECURSIVE clearQueued(_, _)
clearQueued(usage, slots) ==
    IF slots = {} THEN usage
    ELSE LET k == CHOOSE x \in slots : TRUE
         IN  clearQueued(clearUsage(usage, k), slots \ {k})

\* for _, sectorIndex := range sf.queuedSectors { sf.setUsage(sectorIndex) }
RECURSIVE setQueued(_, _)
setQueued(usage, slots) ==
    IF slots = {} THEN usage
    ELSE LET k == CHOOSE x \in slots : TRUE
         IN  setQueued(setUsage(usage, k), slots \ {k})

queuedSlots(sf) == {sf.queuedSectors[id] : id \in DOMAIN sf.queuedSectors}

\* savedStorageFolder: Usage is the slice sf.usage itself, the same array.
savedStorageFolder(sf) ==
    [Index |-> sf.index, Path |-> sf.path, Usage |-> sf.usage]

\* savedSettings, over the folders in the order the map iteration gives them.
\* The result is the snapshot and the memory after the call.
RECURSIVE savedSettingsLoop(_, _, _, _)
savedSettingsLoop(cm, mem, order, ss) ==
    IF order = <<>> THEN [ss |-> ss, mem |-> mem]
    ELSE LET sf      == cm.storageFolders[Head(order)]
             cleared == [mem EXCEPT ![sf.usage] = clearQueued(@, queuedSlots(sf))]
             ss1     == [ss EXCEPT !.StorageFolders = Append(@, savedStorageFolder(sf))]
             reset   == [cleared EXCEPT ![sf.usage] = setQueued(@, queuedSlots(sf))]
         IN  savedSettingsLoop(cm, reset, Tail(order), ss1)

savedSettings(cm, mem, order) ==
    savedSettingsLoop(cm, mem, order,
                      [SectorSalt |-> cm.sectorSalt, StorageFolders |-> <<>>])

\* The orders in which a Go map with the keys S can be ranged over.
Orders(S) ==
    {o \in [1..Cardinality(S) -> S] : \A i, j \in DOMAIN o : i # j => o[i] # o[j]}

\* What a reader of the snapshot sees: each Usage slice read through memory.
snapshotValue(mem, ss) ==
    [SectorSalt |-> ss.SectorSalt,
     StorageFolders |->
        [i \in DOMAIN ss.StorageFolders |->
            [Index |-> ss.StorageFolders[i].Index,
             Path  |-> ss.StorageFolders[i].Path,
             Usage |-> mem[ss.StorageFolders[i].Usage]]]]

(***************************************************************************)
(* The settings file is a JSON record: a uint64 is written as its decimal  *)
(* digits, the salt as hexadecimal digits, a path as a quoted string with  *)
(* quotes and backslashes escaped.  Digits are most significant first.     *)
(***************************************************************************)
RECURSIVE doubleDigits(_, _)
\* 2 * d + carry, on digits least significant first
doubleDigits(d, carry) ==
    IF d = <<>> THEN (IF carry = 0 THEN <<>> ELSE <<carry>>)
    ELSE LET v == 2 * Head(d) + carry
         IN  <<v % 10>> \o doubleDigits(Tail(d), v \div 10)

RECURSIVE halveDigits(_, _)
\* d / 2, on digits most significant first, rem the remainder carried in
halveDigits(d, rem) ==
    IF d = <<>> THEN <<>>
    ELSE LET v == 10 * rem + Head(d)
         IN  <<v \div 2>> \o halveDigits(Tail(d), v % 2)

RECURSIVE reverseSeq(_)
reverseSeq(s) == IF s = <<>> THEN <<>> ELSE Append(reverseSeq(Tail(s)), Head(s))

RECURSIVE stripZeros(_)
stripZeros(d) ==
    IF Len(d) > 1 /\ Head(d) = 0 THEN stripZeros(Tail(d)) ELSE d

RECURSIVE wordDigits(_, _, _)
wordDigits(word, bit, d) ==
    IF bit < 0 \/ Len(d) > 20 THEN d
    ELSE wordDigits(word, bit - 1, doubleDigits(d, IF bit \in word THEN 1 ELSE 0))

encodeUint64(word) ==
    LET d == wordDigits(word, 63, <<>>)
    IN  IF d = <<>> THEN <<0>> ELSE reverseSeq(d)

RECURSIVE digitsWord(_, _, _)
digitsWord(d, bit, word) ==
    IF d = <<0>> \/ bit > 63 \/ Cardinality(word) > 64 THEN word
    ELSE digitsWord(stripZeros(halveDigits(d, 0)), bit + 1,
                    IF d[Len(d)] % 2 = 1 THEN word \cup {bit} ELSE word)

decodeUint64(d) == digitsWord(stripZeros(d), 0, {})

RECURSIVE natDigits(_)
natDigits(n) == IF n < 10 THEN <<n>> ELSE Append(natDigits(n \div 10), n % 10)

RECURSIVE digitsNat(_)
digitsNat(d) ==
    IF d = <<>> THEN 0 ELSE 10 * digitsNat(SubSeq(d, 1, Len(d) - 1)) + d[Len(d)]

RECURSIVE encodeHash(_)
encodeHash(h) ==
    IF h = <<>> THEN <<>>
    ELSE <<Head(h) \div 16, Head(h) % 16>> \o encodeHash(Tail(h))

RECURSIVE decodeHash(_)
decodeHash(x) ==
    IF Len(x) < 2 THEN <<>>
    ELSE <<16 * x[1] + x[2]>> \o decodeHash(SubSeq(x, 3, Len(x)))

RECURSIVE escapeString(_)
escapeString(s) ==
    IF s = <<>> THEN <<>>
    ELSE (IF Head(s) \in {"\"", "\\"} THEN <<"\\", Head(s)>> ELSE <<Head(s)>>)
            \o escapeString(Tail(s))

RECURSIVE unescapeString(_)
unescapeString(s) ==
    IF s = <<>> THEN <<>>
    ELSE IF Head(s) = "\\" /\ Len(s) > 1
         THEN <<s[2]>> \o unescapeString(SubSeq(s, 3, Len(s)))
         ELSE <<Head(s)>> \o unescapeString(Tail(s))

encodeString(s) == <<"\"">> \o escapeString(s) \o <<"\"">>
decodeString(s) == unescapeString(SubSeq(s, 2, Len(s) - 1))

encodeSettings(v) ==
    [SectorSalt |-> encodeHash(v.SectorSalt),
     StorageFolders |->
        [i \in DOMAIN v.StorageFolders |->
            [Index |-> natDigits(v.StorageFolders[i].Index),
             Path  |-> encodeString(v.StorageFolders[i].Path),
             Usage |-> [j \in DOMAIN v.StorageFolders[i].Usage |->
                            encodeUint64(v.StorageFolders[i].Usage[j])]]]]

decodeSettings(e) ==
    [SectorSalt |-> decodeHash(e.SectorSalt),
     StorageFolders |->
        [i \in DOMAIN e.StorageFolders |->
            [Index |-> digitsNat(e.StorageFolders[i].Index),
             Path  |-> decodeString(e.StorageFolders[i].Path),
             Usage |-> [j \in DOMAIN e.StorageFolders[i].Usage |->
                            decodeUint64(e.StorageFolders[i].Usage[j])]]]]

(***************************************************************************)
(* Files.  The disk is [settings, folders]: settings is the settings file  *)
(* ([kind |-> "missing" | "corrupt" | "settings", data]), folders gives,   *)
(* by path, the metadata file ([exists, bytes]) and the sector file        *)
(* ([exists]).  A file handle is <<path, name>>; noFile is a nil handle.   *)
(***************************************************************************)
noFile == <<>>
errNotExist == "file does not exist"
errLoadFile == "error loading the contract manager settings file"
errSaveFile == "error saving contract manager after initialization"
errOpenMetadata == "error loading storage folder sector file handle"
errOpenSector == "error loading storage folder sector metadata file handle"
errShortRead == "unexpected EOF"

canOpen(disk, path, name) ==
    /\ path \in DOMAIN disk.folders
    /\ disk.folders[path][name].exists

\* dependencies.loadFile of the settings file
loadFile(disk) ==
    CASE disk.settings.kind = "missing" -> [err |-> errNotExist, ss |-> <<>>]
      [] disk.settings.kind = "corrupt" -> [err |-> errLoadFile, ss |-> <<>>]
      [] OTHER -> [err |-> nil, ss |-> decodeSettings(disk.settings.data)]

\* persist.SaveFileSync of a settings value: the file is replaced as a whole
\* or, when the write fails, left as it was.
SaveFileSync(disk, value, fails) ==
    IF fails THEN [disk |-> disk, err |-> errSaveFile]
    ELSE [disk |-> [disk EXCEPT !.settings =
                        [kind |-> "settings", data |-> encodeSettings(value)]],
          err  |-> nil]

\* readFullMetadata: numSectors records, or an error when the file is shorter.
readFullMetadata(disk, file, numSectors) ==
    LET f == disk.folders[file[1]].metadata
    IN  IF file = noFile \/ ~f.exists \/ Len(f.bytes) < numSectors * sectorMetadataDiskSize
        THEN [err |-> errShortRead, bytes |-> <<>>]
        ELSE [err |-> nil, bytes |-> SubSeq(f.bytes, 1, numSectors * sectorMetadataDiskSize)]

littleEndianUint16_BigEndian(b) == 256 * b[1] + b[2]

\* binary.LittleEndian.Uint16
littleEndianUint16(b) == b[1] + 256 * b[2]

newStorageFolder ==
    [index |-> 0, path |-> <<>>, usage |-> 0,
     metadataFile |-> noFile, sectorFile |-> noFile,
     queuedSectors |-> emptyMap, sectors |-> 0,
     atomicFailedReads |-> 0, atomicSuccessfulReads |-> 0]

zeroHash == [i \in 1..32 |-> 0]

\* A contract manager before loadSettings.
newContractManager ==
    [sectorSalt |-> zeroHash, storageFolders |-> emptyMap, sectorLocations |-> emptyMap]

\* initSettings: a random salt, then the settings are saved.
initSettings(cm, mem, disk, handles, salt, order, saveFails) ==
    LET cm1 == [cm EXCEPT !.sectorSalt = salt]
        s   == savedSettings(cm1, mem, order)
        w   == SaveFileSync(disk, snapshotValue(s.mem, s.ss), saveFails)
    IN  [cm |-> cm1, mem |-> s.mem, disk |-> w.disk, handles |-> handles, err |-> w.err]

\* The loop of loadSettings over ss.StorageFolders from position i; base is
\* the address before the first Usage array of the decoded settings.
RECURSIVE loadSettingsLoop(_, _, _, _, _, _, _)
loadSettingsLoop(cm, mem, disk, handles, ss, base, i) ==
    IF i > Len(ss.StorageFolders)
    THEN [cm |-> cm, mem |-> mem, disk |-> disk, handles |-> handles, err |-> nil]
    ELSE LET saved == ss.StorageFolders[i]
             meta  == <<saved.Path, "metadata">>
             sect  == <<saved.Path, "sector">>
             sf    == [newStorageFolder EXCEPT
                          !.index = saved.Index, !.path = saved.Path,
                          !.usage = base + i,
                          !.metadataFile = meta, !.sectorFile = sect]
         IN  IF ~canOpen(disk, saved.Path, "metadata")
             THEN [cm |-> cm, mem |-> mem, disk |-> disk, handles |-> handles,
                   err |-> errOpenMetadata]
             ELSE IF ~canOpen(disk, saved.Path, "sector")
             THEN \* sf.metadataFile.Close()
                  [cm |-> cm, mem |-> mem, disk |-> disk, handles |-> handles,
                   err |-> errOpenSector]
             ELSE loadSettingsLoop(
                      [cm EXCEPT !.storageFolders = mapPut(@, sf.index, sf)],
                      mem, disk, handles \cup {meta, sect}, ss, base, i + 1)

loadSettings_KeepsSalt(cm, mem, disk, handles, salt, order, saveFails) ==
    LET l == loadFile(disk)
    IN  IF l.err = errNotExist
        THEN initSettings(cm, mem, disk, handles, salt, order, saveFails)
        ELSE IF l.err # nil
        THEN [cm |-> cm, mem |-> mem, disk |-> disk, handles |-> handles, err |-> l.err]
        ELSE loadSettingsLoop(
                 cm,
                 mem \o [i \in DOMAIN l.ss.StorageFolders |-> l.ss.StorageFolders[i].Usage],
                 disk, handles, l.ss, Len(mem), 1)

loadSettings(cm, mem, disk, handles, salt, order, saveFails) ==
    LET l == loadFile(disk)
    IN  IF l.err = errNotExist
        THEN initSettings(cm, mem, disk, handles, salt, order, saveFails)
        ELSE IF l.err # nil
        THEN [cm |-> cm, mem |-> mem, disk |-> disk, handles |-> handles, err |-> l.err]
        ELSE loadSettingsLoop(
                 [cm EXCEPT !.sectorSalt = l.ss.SectorSalt],
                 mem \o [i \in DOMAIN l.ss.StorageFolders |-> l.ss.StorageFolders[i].Usage],
                 disk, handles, l.ss, Len(mem), 1)

\* The inner loop of loadSectorLocations over the slots in use.
RECURSIVE loadSectors(_, _, _, _)
loadSectors(cm, index, bytes, slots) ==
    IF slots = <<>> THEN cm
    ELSE LET sectorIndex == Head(slots)
             readHead    == sectorMetadataDiskSize * sectorIndex
             id          == SubSeq(bytes, readHead + 1, readHead + 12)
             count       == littleEndianUint16(SubSeq(bytes, readHead + 13, readHead + 14))
             sl          == [index |-> sectorIndex, storageFolder |-> index, count |-> count]
         IN  loadSectors(
                 [cm EXCEPT !.sectorLocations = mapPut(@, id, sl),
                            !.storageFolders[index].sectors = @ + 1],
                 index, bytes, Tail(slots))

\* loadSectorLocations, over the folders in the order the map iteration
\* gives them.
RECURSIVE loadSectorLocations_StopsOnFailure(_, _, _, _)
loadSectorLocations_StopsOnFailure(cm, mem, disk, order) ==
    IF order = <<>> THEN cm
    ELSE LET sf == cm.storageFolders[Head(order)]
             r  == readFullMetadata(disk, sf.metadataFile,
                                    Len(mem[sf.usage]) * storageFolderGranularity)
         IN  IF r.err # nil
             THEN [cm EXCEPT !.storageFolders[sf.index].atomicFailedReads = @ + 1]
             ELSE loadSectorLocations_StopsOnFailure(
                      loadSectors(
                          [cm EXCEPT !.storageFolders[sf.index].atomicSuccessfulReads = @ + 1],
                          sf.index, r.bytes, usageSectors(mem[sf.usage])),
                      mem, disk, Tail(order))

RECURSIVE loadSectorLocations(_, _, _, _)
loadSectorLocations(cm, mem, disk, order) ==
    IF order = <<>> THEN cm
    ELSE LET sf == cm.storageFolders[Head(order)]
             r  == readFullMetadata(disk, sf.metadataFile,
                                    Len(mem[sf.usage]) * storageFolderGranularity)
         IN  IF r.err # nil
             THEN loadSectorLocations(
                      [cm EXCEPT !.storageFolders[sf.index].atomicFailedReads = @ + 1],
                      mem, disk, Tail(order))
             ELSE loadSectorLocations(
                      loadSectors(
                          [cm EXCEPT !.storageFolders[sf.index].atomicSuccessfulReads = @ + 1],
                          sf.index, r.bytes, usageSectors(mem[sf.usage])),
                      mem, disk, Tail(order))

(***************************************************************************)
(* The contract managers and disks the model starts from.                  *)
(***************************************************************************)
pathA == <<"/", "a">>
pathB == <<"/", "b", "\\", "c">>
saltA == [i \in 1..32 |-> i]
saltB == [i \in 1..32 |-> 256 - i]
RandomSalts == {saltB}

sectorID(n) == [i \in 1..12 |-> (n + i) % 256]

\* A metadata file of numSlots records, those of recs filled in.
metadataBytes(numSlots, recs) ==
    [p \in 1..(numSlots * 14) |->
        LET k == (p - 1) \div 14
            o == (p - 1) % 14
        IN  IF k \notin DOMAIN recs THEN 0
            ELSE IF o < 12 THEN recs[k].id[o + 1]
            ELSE IF o = 12 THEN recs[k].count % 256
            ELSE recs[k].count \div 256]

\* Folder A: one word; slots 1, 42 and 63 in use, slot 5 freed with its old
\* record left in the file.
usageA == << {1, 42, 63} >>
recordsA ==
    [k \in {1, 5, 42, 63} |->
        CASE k = 1  -> [id |-> sectorID(100), count |-> 258]
          [] k = 5  -> [id |-> sectorID(0),   count |-> 9]
          [] k = 42 -> [id |-> sectorID(0),   count |-> 3]
          [] k = 63 -> [id |-> sectorID(90),  count |-> 2]]
metadataA == metadataBytes(64, recordsA)

\* Folder B: two words; slots 0 and 67 in use.
usageB == << {0}, {3} >>
recordsB ==
    [k \in {0, 67} |->
        CASE k = 0  -> [id |-> sectorID(30), count |-> 1]
          [] k = 67 -> [id |-> sectorID(60), count |-> 65535]]
metadataB == metadataBytes(128, recordsB)

folderA == [Index |-> 7, Path |-> pathA, Usage |-> usageA]
folderB == [Index |-> 300, Path |-> pathB, Usage |-> usageB]

SavedValues ==
    {[SectorSalt |-> saltA, StorageFolders |-> f] :
        f \in {<<>>, <<folderA>>, <<folderA, folderB>>, <<folderB, folderA>>}}

noSavedValue == [saved |-> FALSE, value |-> <<>>]

\* A settings file with the value it was written from.
SettingsFiles ==
    {[file |-> [kind |-> "missing", data |-> <<>>], from |-> noSavedValue],
     [file |-> [kind |-> "corrupt", data |-> <<>>], from |-> noSavedValue]}
    \cup {[file |-> [kind |-> "settings", data |-> encodeSettings(v)],
           from |-> [saved |-> TRUE, value |-> v]] : v \in SavedValues}

present(bytes) == [exists |-> TRUE, bytes |-> bytes]
absent == [exists |-> FALSE, bytes |-> <<>>]

FilesA == [metadata |-> present(metadataA), sector |-> present(<<>>)]
FilesB ==
    {[metadata |-> present(metadataB), sector |-> present(<<>>)],
     [metadata |-> present(SubSeq(metadataB, 1, 64 * 14)), sector |-> present(<<>>)],
     [metadata |-> absent, sector |-> present(<<>>)],
     [metadata |-> present(metadataB), sector |-> absent]}

FolderFiles ==
    {[p \in {pathA, pathB} |-> IF p = pathA THEN FilesA ELSE b] : b \in FilesB}

\* The sectors being written when the model starts, by folder index: a slot
\* is given to a sector, its usage bit set, and the sector queued.  Under
\* "unset" the queued slot's usage bit is clear.
QueueChoices == {"none", "one", "two", "unset"}
queuedAt(choice, index) ==
    CASE choice = "one" /\ index = 7   -> [id \in {sectorID(200)} |-> 10]
      [] choice = "unset" /\ index = 7 -> [id \in {sectorID(230)} |-> 30]
      [] choice = "two" /\ index = 7   ->
            [id \in {sectorID(200), sectorID(210)} |->
                IF id = sectorID(200) THEN 10 ELSE 20]
      [] choice = "two" /\ index = 300 -> [id \in {sectorID(220)} |-> 100]
      [] OTHER -> emptyMap

RECURSIVE queueSectors(_, _, _, _)
queueSectors(cm, mem, choice, indices) ==
    IF indices = {} THEN [cm |-> cm, mem |-> mem]
    ELSE LET index == CHOOSE x \in indices : TRUE
             sf    == cm.storageFolders[index]
             q     == queuedAt(choice, index)
         IN  queueSectors(
                 [cm EXCEPT !.storageFolders[index].queuedSectors = q],
                 [mem EXCEPT ![sf.usage] =
                     IF choice = "unset" THEN @
                     ELSE setQueued(@, {q[id] : id \in DOMAIN q})],
                 choice, indices \ {index})

\* A contract manager that started from the disk and is now running.
started(disk) ==
    LET l == loadSettings(newContractManager, <<>>, disk, {}, saltB, <<>>, FALSE)
        o == CHOOSE x \in Orders(DOMAIN l.cm.storageFolders) : TRUE
    IN  [l EXCEPT !.cm = loadSectorLocations(l.cm, l.mem, l.disk, o)]

InitPersist ==
    \E s \in SettingsFiles, files \in FolderFiles, running \in BOOLEAN,
       choice \in QueueChoices :
        LET disk == [settings |-> s.file, folders |-> files]
            l    == started(disk)
            q    == queueSectors(l.cm, l.mem, choice, DOMAIN l.cm.storageFolders)
        IN  /\ running => s.from.saved /\ l.err = nil
            /\ ~running => choice = "none"
            /\ state = IF running THEN q.cm ELSE newContractManager
            /\ builders = IF running THEN q.mem ELSE <<>>
            /\ wallet = disk
            /\ call = IF running THEN [pc |-> "running", handles |-> l.handles]
                                 ELSE [pc |-> "new", handles |-> {}]
            /\ prev = s.from
            /\ ret = [op |-> "none", err |-> nil, ss |-> <<>>]
            /\ ncalls = 0
            /\ txn = <<>>
            /\ selected = <<>>

pvars == <<txn, selected>>

(***************************************************************************)
(* The calls.                                                              *)
(***************************************************************************)
LoadSettings(salt, saveFails) ==
    /\ ncalls < MaxPersistCalls
    /\ call.pc = "new"
    /\ \E order \in Orders(DOMAIN state.storageFolders) :
        LET l == loadSettings(state, builders, wallet, call.handles, salt, order, saveFails)
        IN  /\ state' = l.cm
            /\ builders' = l.mem
            /\ wallet' = l.disk
            /\ call' = [pc |-> IF l.err = nil THEN "loaded" ELSE "failed",
                        handles |-> l.handles]
            /\ prev' = IF l.disk = wallet THEN prev
                       ELSE [saved |-> TRUE,
                             value |-> snapshotValue(l.mem, savedSettings(l.cm, l.mem, order).ss)]
            /\ ret' = [op |-> "loadSettings", err |-> l.err, ss |-> <<>>]
    /\ ncalls' = ncalls + 1
    /\ UNCHANGED pvars

LoadSectorLocations(order) ==
    /\ ncalls < MaxPersistCalls
    /\ call.pc = "loaded"
    /\ order \in Orders(DOMAIN state.storageFolders)
    /\ state' = loadSectorLocations(state, builders, wallet, order)
    /\ call' = [call EXCEPT !.pc = "running"]
    /\ ret' = [op |-> "loadSectorLocations", err |-> nil, ss |-> <<>>]
    /\ ncalls' = ncalls + 1
    /\ UNCHANGED <<builders, wallet, prev, pvars>>

SavedSettings(order) ==
    /\ ncalls < MaxPersistCalls
    /\ call.pc = "running"
    /\ order \in Orders(DOMAIN state.storageFolders)
    /\ LET s == savedSettings(state, builders, order)
       IN  /\ builders' = s.mem
           /\ ret' = [op |-> "savedSettings", err |-> nil, ss |-> s.ss]
    /\ ncalls' = ncalls + 1
    /\ UNCHANGED <<state, wallet, call, prev, pvars>>

\* The snapshot savedSettings returned is written to the settings file.
SaveSettings(fails) ==
    /\ ncalls < MaxPersistCalls
    /\ call.pc = "running"
    /\ ret.op = "savedSettings"
    /\ LET value == snapshotValue(builders, ret.ss)
           w     == SaveFileSync(wallet, value, fails)
       IN  /\ wallet' = w.disk
           /\ prev' = IF fails THEN prev ELSE [saved |-> TRUE, value |-> value]
           /\ ret' = [op |-> "SaveFileSync", err |-> w.err, ss |-> ret.ss]
    /\ ncalls' = ncalls + 1
    /\ UNCHANGED <<state, builders, call, pvars>>

\* The process stops and a new one starts: memory and open files are gone,
\* the disk stays.
Restart ==
    /\ ncalls < MaxPersistCalls
    /\ call.pc # "new"
    /\ state' = newContractManager
    /\ builders' = <<>>
    /\ call' = [pc |-> "new", handles |-> {}]
    /\ ret' = [op |-> "restart", err |-> nil, ss |-> <<>>]
    /\ ncalls' = ncalls + 1
    /\ UNCHANGED <<wallet, prev, pvars>>

NextPersist ==
    \/ \E salt \in RandomSalts : \E saveFails \in BOOLEAN : LoadSettings(salt, saveFails)
    \/ \E order \in Orders({7, 300}) \cup Orders({7}) \cup Orders({}) : LoadSectorLocations(order)
    \/ \E order \in Orders({7, 300}) \cup Orders({7}) \cup Orders({}) : SavedSettings(order)
    \/ \E fails \in BOOLEAN : SaveSettings(fails)
    \/ Restart

SpecPersist == InitPersist /\ [][NextPersist]_vars

(***************************************************************************)
(* Properties of the contract manager's persistence.                       *)
(***************************************************************************)
\* The folders of a settings value, with the live folder of each.
queuedBitsClear(value) ==
    \A i \in DOMAIN value.StorageFolders :
        LET f == value.StorageFolders[i]
        IN  \A k \in queuedSlots(state.storageFolders[f.Index]) : ~usageBit(f.Usage, k)

\* C28: the snapshot savedSettings returned has, for every storage folder,
\* the usage bit of every queued slot cleared, when the call has returned and
\* when the snapshot has been written to the settings file.
C28_SnapshotCommittedOnly ==
    /\ ret.op = "savedSettings" => queuedBitsClear(snapshotValue(builders, ret.ss))
    /\ ret.op = "SaveFileSync" /\ ret.err = nil =>
          queuedBitsClear(decodeSettings(wallet.settings.data))

\* What the code gives instead: the snapshot's Usage is the live bitmap.
C28_SnapshotIsLiveBitmap ==
    ret.op \in {"savedSettings", "SaveFileSync"} =>
        \A i \in DOMAIN ret.ss.StorageFolders :
            LET f == ret.ss.StorageFolders[i]
            IN  /\ f.Usage = state.storageFolders[f.Index].usage
                /\ \A k \in queuedSlots(state.storageFolders[f.Index]) :
                      usageBit(builders[f.Usage], k)

\* The folders whose metadata loadSectorLocations read, and their records.
readFolders == {index \in DOMAIN state.storageFolders :
                    state.storageFolders[index].atomicSuccessfulReads > 0}
slotsInUse(index) ==
    {k \in 0..(Len(builders[state.storageFolders[index].usage]) * 64 - 1) :
        usageBit(builders[state.storageFolders[index].usage], k)}
storedID(index, k) ==
    SubSeq(wallet.folders[state.storageFolders[index].path].metadata.bytes,
           14 * k + 1, 14 * k + 12)
storedCount(index, k) ==
    LET bytes == wallet.folders[state.storageFolders[index].path].metadata.bytes
    IN  bytes[14 * k + 13] + 256 * bytes[14 * k + 14]
locationOf(index, k) ==
    [index |-> k, storageFolder |-> index, count |-> storedCount(index, k)]

\* C29: after loadSectorLocations, for every folder whose metadata was read
\* and every slot k in use, sectorLocations maps the SectorID stored at 14*k
\* to {index: k, storageFolder: the folder's index, count: the little-endian
\* uint16 at 14*k+12}; no other entries are made.
C29_SectorLocationsLoaded ==
    ret.op = "loadSectorLocations" =>
        /\ \A index \in readFolders : \A k \in slotsInUse(index) :
              /\ storedID(index, k) \in DOMAIN state.sectorLocations
              /\ state.sectorLocations[storedID(index, k)] = locationOf(index, k)
        /\ \A id \in DOMAIN state.sectorLocations :
              \E index \in readFolders : \E k \in slotsInUse(index) :
                  /\ id = storedID(index, k)
                  /\ state.sectorLocations[id] = locationOf(index, k)

\* The same for the slots whose SectorID no other slot in use holds.
sharedID(index, k) ==
    \E other \in readFolders : \E j \in slotsInUse(other) :
        <<other, j>> # <<index, k>> /\ storedID(other, j) = storedID(index, k)

C29_SectorLocationsDistinct ==
    ret.op = "loadSectorLocations" =>
        /\ \A index \in readFolders : \A k \in slotsInUse(index) :
              ~sharedID(index, k) =>
                  /\ storedID(index, k) \in DOMAIN state.sectorLocations
                  /\ state.sectorLocations[storedID(index, k)] = locationOf(index, k)
        /\ \A id \in DOMAIN state.sectorLocations :
              \E index \in readFolders : \E k \in slotsInUse(index) :
                  /\ id = storedID(index, k)
                  /\ state.sectorLocations[id] = locationOf(index, k)

C29_Slot42 ==
    /\ ret.op = "loadSectorLocations"
    /\ sectorID(0) \in DOMAIN state.sectorLocations
    /\ state.sectorLocations[sectorID(0)] = [index |-> 42, storageFolder |-> 7, count |-> 3]
    /\ \E index \in DOMAIN state.storageFolders :
          state.storageFolders[index].atomicFailedReads > 0

\* C30: after the settings were saved, loadSettings on a new contract
\* manager restores the saved SectorSalt and registers, for every saved
\* storage folder, a storageFolder under its Index with the same Index, Path
\* and Usage bitmap.
C30_SettingsRoundTrip ==
    ret.op = "loadSettings" /\ ret.err = nil /\ prev.saved =>
        /\ state.sectorSalt = prev.value.SectorSalt
        /\ \A i \in DOMAIN prev.value.StorageFolders :
              LET f == prev.value.StorageFolders[i]
              IN  /\ f.Index \in DOMAIN state.storageFolders
                  /\ state.storageFolders[f.Index].index = f.Index
                  /\ state.storageFolders[f.Index].path = f.Path
                  /\ builders[state.storageFolders[f.Index].usage] = f.Usage

C30_Witness ==
    /\ ret.op = "loadSettings" /\ ret.err = nil /\ prev.saved
    /\ ncalls > 3
    /\ DOMAIN state.storageFolders = {7, 300}
    /\ usageBit(builders[state.storageFolders[7].usage], 10)
    /\ state.storageFolders[7].queuedSectors = emptyMap

queuedBitsSet ==
    \A index \in DOMAIN state.storageFolders :
        \A k \in queuedSlots(state.storageFolders[index]) :
            usageBit(builders[state.storageFolders[index].usage], k)

C35_SavedSettingsRestores ==
    [][Calls("savedSettings") /\ queuedBitsSet => state' = state /\ builders' = builders]_vars

\* C36: in loadSectorLocations every storage folder raises exactly one of
\* its two counters by one: atomicFailedReads when its metadata cannot be
\* read, and then it gets no sectorLocations entry and its sectors count
\* stays; atomicSuccessfulReads otherwise, and then its sectors count grows
\* by the number of set usage bits.  A failing folder does not stop the
\* others.
readable(sf) ==
    readFullMetadata(wallet, sf.metadataFile, Len(builders[sf.usage]) * 64).err = nil

C36_OneCounterPerFolder ==
    [][Calls("loadSectorLocations") =>
        /\ DOMAIN state'.storageFolders = DOMAIN state.storageFolders
        /\ \A index \in DOMAIN state.storageFolders :
              LET before == state.storageFolders[index]
                  after  == state'.storageFolders[index]
              IN  IF readable(before)
                  THEN /\ after.atomicSuccessfulReads = before.atomicSuccessfulReads + 1
                       /\ after.atomicFailedReads = before.atomicFailedReads
                       /\ after.sectors = before.sectors
                              + Cardinality({k \in 0..(Len(builders[before.usage]) * 64 - 1) :
                                                usageBit(builders[before.usage], k)})
                  ELSE /\ after.atomicFailedReads = before.atomicFailedReads + 1
                       /\ after.atomicSuccessfulReads = before.atomicSuccessfulReads
                       /\ after.sectors = before.sectors
                       /\ \A id \in DOMAIN state'.sectorLocations :
                              state'.sectorLocations[id].storageFolder # index
    ]_vars

C36_Witness ==
    /\ ret.op = "loadSectorLocations"
    /\ DOMAIN state.storageFolders = {7, 300}
    /\ state.storageFolders[300].atomicFailedReads = 1
    /\ state.storageFolders[300].sectors = 0
    /\ state.storageFolders[7].atomicSuccessfulReads = 1
    /\ state.storageFolders[7].sectors = 3

\* C37: loadSettings with no settings file sets a sector salt, saves the
\* settings and registers no folder; with a settings file it registers a
\* folder only with both its files open; when a file cannot be opened it
\* returns an error, the folder is not registered, and no file this call
\* opened is left open.
handlesOf(path) == {<<path, "metadata">>, <<path, "sector">>}

C37_LoadSettings ==
    [][Calls("loadSettings") =>
        /\ wallet.settings.kind = "missing" =>
              /\ state'.storageFolders = emptyMap
              /\ ret'.err = nil =>
                    /\ wallet'.settings.kind = "settings"
                    /\ decodeSettings(wallet'.settings.data).SectorSalt = state'.sectorSalt
        /\ \A index \in DOMAIN state'.storageFolders :
              handlesOf(state'.storageFolders[index].path) \subseteq call'.handles
        /\ ret'.err \in {errOpenMetadata, errOpenSector} =>
              /\ \E i \in DOMAIN decodeSettings(wallet.settings.data).StorageFolders :
                    LET f == decodeSettings(wallet.settings.data).StorageFolders[i] IN
                    /\ f.Index \notin DOMAIN state'.storageFolders
                    /\ ~canOpen(wallet, f.Path, "metadata") \/ ~canOpen(wallet, f.Path, "sector")
              /\ call'.handles = call.handles
    ]_vars

\* What holds of the handles: the files of the folder that failed are closed,
\* the files of the folders registered before it stay open.
C37_FailingFolderClosed ==
    [][Calls("loadSettings") /\ ret'.err \in {errOpenMetadata, errOpenSector} =>
        call'.handles = UNION {handlesOf(state'.storageFolders[index].path) :
                                  index \in DOMAIN state'.storageFolders}
    ]_vars

(***************************************************************************)
(* storageProofSegment on its own: the state holds one file contract, of   *)
(* every start height and file size of the sets below, and the function is *)
(* called for that contract and for an unknown one.                        *)
(***************************************************************************)
FileSizes == {0, 1, SegmentSize, SegmentSize + 1, 2 * SegmentSize}

StorageContract(start, fileSize) ==
    [Contract(start, start + 2, <<960>>, <<1000>>, UnlockHash(ucA)) EXCEPT !.FileSize = fileSize]

InitStorageProof ==
    /\ \E h \in 0..MaxHeight, start \in 0..(MaxHeight + 1), size \in FileSizes :
          state = [ConsensusState(h) EXCEPT
                      !.fileContracts = [id \in {"fc1"} |-> StorageContract(start, size)]]
    /\ \E i \in {0, 1} :
          txn = [EmptyTransaction EXCEPT !.StorageProofs =
                    << [ParentID |-> "fc1", Segment |-> i,
                        HashSet |-> [index |-> i,
                                     numSegments |-> CalculateSegments(state.fileContracts["fc1"].FileSize),
                                     root |-> "root"]] >>]
    /\ call = NoCall
    /\ prev = NoCall
    /\ wallet = <<>>
    /\ builders = <<>>
    /\ ret = <<>>
    /\ selected = <<>>
    /\ ncalls = 0

\* s.storageProofSegment(fcid)
StorageProofSegment(fcid) ==
    /\ call = NoCall
    /\ LET r == storageProofSegment(state, fcid)
       IN  call' = [fn |-> "storageProofSegment", err |-> r.err, ran |-> <<fcid, r.index>>]
    /\ UNCHANGED <<state, txn, prev, wvars>>

NextStorageProof ==
    \/ \E fcid \in {"fc1", "fc9"} : StorageProofSegment(fcid)
    \/ ValidStorageProofs

SpecStorageProof == InitStorageProof /\ [][NextStorageProof]_vars

\* C33: storageProofSegment returns an error when the contract is unknown or
\* its trigger height Start - 1 (in unsigned arithmetic) is above the current
\* height, and otherwise the index SeedInt mod numSegments, which is at least
\* 0 and below numSegments; it never divides by zero.
C33_SegmentIndex ==
    call.fn = "storageProofSegment" =>
        LET fcid == call.ran[1]
            index == call.ran[2]
        IN  IF fcid \notin DOMAIN state.fileContracts
            THEN call.err = ErrUnknownContract
            ELSE LET fc == state.fileContracts[fcid]
                     numSegments == CalculateSegments(fc.FileSize)
                 IN  IF fc.Start = 0 \/ fc.Start - 1 > state.height
                     THEN call.err = ErrNoTriggerBlock
                     ELSE /\ call.err = nil
                          /\ 0 <= index /\ index < numSegments
                          /\ index = SeedInt(state.currentPath[fc.Start - 1], fcid) % numSegments

\* The same for the contracts with a file of at least one byte.
C33_SegmentIndexNonEmptyFile ==
    call.fn = "storageProofSegment" =>
        LET fcid == call.ran[1]
            index == call.ran[2]
        IN  IF fcid \notin DOMAIN state.fileContracts
            THEN call.err = ErrUnknownContract
            ELSE LET fc == state.fileContracts[fcid]
                     numSegments == CalculateSegments(fc.FileSize)
                 IN  IF fc.Start = 0 \/ fc.Start - 1 > state.height
                     THEN call.err = ErrNoTriggerBlock
                     ELSE IF fc.FileSize = 0
                     THEN call.err = ErrPanicDivideByZero
                     ELSE /\ call.err = nil
                          /\ 0 <= index /\ index < numSegments
                          /\ index = SeedInt(state.currentPath[fc.Start - 1], fcid) % numSegments

(***************************************************************************)
(* Transactions that spend from the state: siacoin and siafund inputs and  *)
(* outputs and miner fees only, long enough to name one output twice and   *)
(* to balance the sums.                                                    *)
(***************************************************************************)
MaxSpendItems == 4

SpendFieldNames ==
    {"SiacoinInputs", "SiacoinOutputs", "MinerFees", "SiafundInputs", "SiafundOutputs"}

SpendChoices(f) ==
    IF f = "SiacoinOutputs"
    THEN Choices(f) \cup {[Value |-> 2000, UnlockHash |-> "dest"]}
    ELSE IF f = "SiafundOutputs"
    THEN Choices(f) \cup {[Value |-> 120, UnlockHash |-> "dest", ClaimStart |-> 0]}
    ELSE Choices(f)

\* The caller puts one more input, output or fee into the transaction.
AddSpendElement ==
    /\ call = NoCall
    /\ TxnItems(txn) < MaxSpendItems
    /\ \E f \in SpendFieldNames : \E x \in SpendChoices(f) :
          txn' = [txn EXCEPT ![f] = Append(@, x)]
    /\ UNCHANGED <<state, call, prev, wvars>>

NextSpend ==
    \/ AddSpendElement
    \/ ValidSiacoins
    \/ ValidSiafunds

SpecSpend == InitValidator /\ [][NextSpend]_vars

\* The ParentIDs of a list of inputs are pairwise different.
distinctParents(inputs) ==
    \A i, j \in 1..Len(inputs) : inputs[i].ParentID = inputs[j].ParentID => i = j

\* C34: a transaction accepted by validSiacoins names no siacoin output in
\* two of its inputs, and a transaction accepted by validSiafunds names no
\* siafund output in two of its inputs, so that every unspent output is
\* counted at most once in the input sum.
C34_NoOutputSpentTwice ==
    /\ (call.fn = "validSiacoins" /\ call.err = nil) => distinctParents(txn.SiacoinInputs)
    /\ (call.fn = "validSiafunds" /\ call.err = nil) => distinctParents(txn.SiafundInputs)

\* What the two functions do guarantee: every input of an accepted
\* transaction names an output of the state with the input's unlock
\* conditions, and the values looked up, one per input, add up to the
\* output sum.
C34_InputsFoundAndBalanced ==
    /\ (call.fn = "validSiacoins" /\ call.err = nil) =>
          /\ \A i \in 1..Len(txn.SiacoinInputs) :
                 /\ txn.SiacoinInputs[i].ParentID \in DOMAIN state.siacoinOutputs
                 /\ UnlockHash(txn.SiacoinInputs[i].UnlockConditions) =
                        state.siacoinOutputs[txn.SiacoinInputs[i].ParentID].UnlockHash
          /\ SumSeq([i \in 1..Len(txn.SiacoinInputs) |->
                        state.siacoinOutputs[txn.SiacoinInputs[i].ParentID].Value])
                = SiacoinOutputSum(txn)
    /\ (call.fn = "validSiafunds" /\ call.err = nil) =>
          /\ \A i \in 1..Len(txn.SiafundInputs) :
                 txn.SiafundInputs[i].ParentID \in DOMAIN state.siafundOutputs
          /\ SumSeq([i \in 1..Len(txn.SiafundInputs) |->
                        state.siafundOutputs[txn.SiafundInputs[i].ParentID].Value])
                = SumSeq(Values(txn.SiafundOutputs))

\* A transaction with an input named twice has been accepted.
C34_SpentTwiceAccepted ==
    /\ call.fn = "validSiacoins"
    /\ call.err = nil
    /\ Len(txn.SiacoinInputs) = 2
    /\ txn.SiacoinInputs[1].ParentID = txn.SiacoinInputs[2].ParentID

(***************************************************************************)
(* Further properties of the builders, checked under SpecBuilder.          *)
(***************************************************************************)
\* The siafund outputs the FundSiafunds call of this step selected: the
\* inputs of the parent transaction it appended.
SiafundsSelected ==
    LET tb == builders[ret'.b]
        tb1 == builders'[ret'.b]
    IN IF Len(tb1.parents) > Len(tb.parents)
       THEN InputIDs(tb1.parents[Len(tb1.parents)].SiafundInputs)
       ELSE {}

\* The wallet holds a recently-spent entry for id that is younger than
\* RespendTimeout at the wallet's height.
recentlySpent(w, id) ==
    /\ id \in DOMAIN w.spentOutputs
    /\ w.spentOutputs[id] + RespendTimeout > w.height

\* C32: FundSiafunds applies the respend rule of checkOutput at every height
\* and spend height, spend height 0 and heights below RespendTimeout
\* included: it selects no siafund output that has a recently-spent entry
\* with spendHeight + RespendTimeout > currentHeight.
C32_SiafundRespendRule ==
    [][ (Calls("FundSiafunds") /\ ret'.err = nil) =>
            \A id \in SiafundsSelected : ~recentlySpent(wallet, id) ]_vars

\* The rule FundSiafunds does apply: it selects no siafund output whose
\* entry has a spend height above max(currentHeight - RespendTimeout, 0),
\* which is the rule of checkOutput except for an entry written at height 0
\* and read below RespendTimeout.
C32_SiafundRespendAboveZero ==
    [][ (Calls("FundSiafunds") /\ ret'.err = nil) =>
            \A id \in SiafundsSelected :
                recentlySpent(wallet, id) =>
                    /\ wallet.spentOutputs[id] = 0
                    /\ wallet.height < RespendTimeout ]_vars

\* The step is a call of op that returns ErrLowBalance or
\* ErrIncompleteTransactions.
FailsForFunds(op) ==
    /\ Calls(op)
    /\ ret'.err \in {ErrLowBalance, ErrIncompleteTransactions}

\* C38: a call of FundSiacoinsForOutputs, FundSiacoins or FundSiafunds that
\* returns ErrLowBalance or ErrIncompleteTransactions leaves the builder as it
\* was: its transaction (SiacoinInputs, SiacoinOutputs, MinerFees), its
\* parents and the index lists ViewAdded reports.
C38_FailedFundLeavesBuilder ==
    [][ (\/ FailsForFunds("FundSiacoinsForOutputs")
         \/ FailsForFunds("FundSiacoins")
         \/ FailsForFunds("FundSiafunds")) =>
            builders'[ret'.b] = builders[ret'.b] ]_vars

\* FundSiacoins and FundSiafunds build a parent transaction aside and touch
\* the builder only after the balance checks: for them the builder is
\* unchanged.  FundSiacoinsForOutputs leaves the outputs and the parents
\* alone and only appends to MinerFees, SiacoinInputs and siacoinInputs.
C38_FailedFundParentsLeaveBuilder ==
    [][ /\ (FailsForFunds("FundSiacoins") \/ FailsForFunds("FundSiafunds")) =>
               builders'[ret'.b] = builders[ret'.b]
        /\ FailsForFunds("FundSiacoinsForOutputs") =>
               LET tb == builders[ret'.b]
                   tb1 == builders'[ret'.b]
               IN /\ tb1.parents = tb.parents
                  /\ tb1.newParents = tb.newParents
                  /\ tb1.transaction.SiacoinOutputs = tb.transaction.SiacoinOutputs
                  /\ Len(tb1.transaction.MinerFees) <= Len(tb.transaction.MinerFees) + 1
                  /\ SubSeq(tb1.transaction.MinerFees, 1, Len(tb.transaction.MinerFees))
                        = tb.transaction.MinerFees
                  /\ Len(tb1.transaction.SiacoinInputs) - Len(tb.transaction.SiacoinInputs)
                        = Len(tb1.siacoinInputs) - Len(tb.siacoinInputs) ]_vars

\* The indices in list are indices of a sequence of length n, counted from
\* 0, and none of them occurs twice.
validIndices(list, n) ==
    /\ \A k \in 1..Len(list) : list[k] \in 0..(n - 1)
    /\ \A k, l \in 1..Len(list) : list[k] = list[l] => k = l

\* C40: after any sequence of Register, Add*, Fund*, Sign and Drop calls
\* on a builder, what ViewAdded returns is consistent with what View returns:
\* newParents holds indices of parents, siacoinInputs, siafundInputs and
\* transactionSignatures hold indices of the transaction's SiacoinInputs,
\* SiafundInputs and TransactionSignatures, no index occurs twice in a list,
\* and after Drop the four lists, the transaction and the parents are empty
\* and the signed flag is false.
C40_ViewAddedConsistent ==
    /\ \A b \in Builders :
          LET tb == builders[b] IN
          /\ validIndices(tb.newParents, Len(tb.parents))
          /\ validIndices(tb.siacoinInputs, Len(tb.transaction.SiacoinInputs))
          /\ validIndices(tb.siafundInputs, Len(tb.transaction.SiafundInputs))
          /\ validIndices(tb.transactionSignatures,
                          Len(tb.transaction.TransactionSignatures))
    /\ ret.op = "Drop" =>
          LET tb == builders[ret.b] IN
          /\ tb.newParents = <<>>
          /\ tb.siacoinInputs = <<>>
          /\ tb.siafundInputs = <<>>
          /\ tb.transactionSignatures = <<>>
          /\ tb.transaction = EmptyWalletTransaction
          /\ tb.parents = <<>>
          /\ tb.signed = FALSE

\* A builder registered with a transaction or funded twice, then signed:
\* every list ViewAdded reports has an entry, and an index is not 0.
C40_Witness ==
    LET tb == builders["b1"] IN
    /\ tb.newParents # <<>>
    /\ tb.transactionSignatures # <<>>
    /\ \E k \in 1..Len(tb.siacoinInputs) : tb.siacoinInputs[k] > 0

\* A builder that was funded and signed has been dropped.
C40_WitnessDrop ==
    /\ ret.op = "Drop"
    /\ ncalls = MaxBuilderCalls
    /\ wallet.seedProgress > 2

(***************************************************************************)
(* The Fund* calls with the writes to the spent-outputs bucket failing.    *)
(* Each Fund* makes its dbPutSpentOutput calls one after the other and     *)
(* returns the error of the first that fails; failAt is the number of the  *)
(* failing write in the order of the calls, 0 when none fails.             *)
(***************************************************************************)
MaxReserveCalls == 2
MaxWrites == 3
ReserveSiafundAmounts == {3, 5}

\* The result r of a Fund* on wallet w whose writes, in order, put ids, when
\* the write number failAt fails: the writes before it stay in the bucket,
\* the call returns the error, and the builder is tbFailed.
failWrite(w, r, ids, failAt, tbFailed) ==
    [ tb |-> tbFailed,
      w |-> [r.w EXCEPT !.spentOutputs =
                dbPutSpentOutputs(w, SubSeq(ids, 1, failAt - 1), w.height).spentOutputs],
      err |-> errDatabase,
      spent |-> <<>> ]

\* tb.FundSiacoins(amount): the parent output is written first, before the
\* builder is touched, then the selected outputs.
fundSiacoinsWrites(w, tb, amount, failAt) ==
    LET r == fundSiacoins(w, tb, amount)
        newInputs == r.tb.transaction.SiacoinInputs
        ids == <<newInputs[Len(newInputs)].ParentID>> \o r.spent
    IN IF r.err # nil \/ failAt = 0 THEN r
       ELSE failWrite(w, r, ids, failAt, IF failAt = 1 THEN tb ELSE r.tb)

\* tb.FundSiacoinsForOutputs(outputs, fee): the selected outputs are written
\* after the outputs and the refund were added.
fundSiacoinsForOutputsWrites(w, tb, outputs, fee, failAt) ==
    LET r == fundSiacoinsForOutputs(w, tb, outputs, fee)
    IN IF r.err # nil \/ failAt = 0 THEN r
       ELSE failWrite(w, r, r.spent, failAt, r.tb)

\* tb.FundSiafunds(amount): the selected outputs are written after the
\* parent and the input were added.
fundSiafundsWrites(w, tb, amount, failAt) ==
    LET r == fundSiafunds(w, tb, amount)
    IN IF r.err # nil \/ failAt = 0 THEN r
       ELSE failWrite(w, r, r.spent, failAt, r.tb)

\* The number of writes a Fund* with result r makes after `first` writes of
\* its own: a write can fail only if it is made.
CanFail(r, first, failAt) ==
    failAt = 0 \/ (r.err = nil /\ failAt <= first + Len(r.spent))

\* A Fund* call on builder b that returned r.
FundReturns(op, b, arg, r) ==
    /\ ncalls < MaxReserveCalls
    /\ ncalls' = ncalls + 1
    /\ builders' = [builders EXCEPT ![b] = r.tb]
    /\ wallet' = r.w
    /\ selected' = IF r.err = nil THEN Select(b, r.spent, wallet.height) ELSE selected
    /\ ret' = Returned(op, b, arg, r.err)
    /\ UNCHANGED vvars

FundSiacoinsWrites(b, amount, failAt) ==
    /\ CanFail(fundSiacoins(wallet, builders[b], amount), 1, failAt)
    /\ FundReturns("FundSiacoins", b, amount,
                   fundSiacoinsWrites(wallet, builders[b], amount, failAt))

FundSiacoinsForOutputsWrites(b, outputs, fee, failAt) ==
    /\ CanFail(fundSiacoinsForOutputs(wallet, builders[b], outputs, fee), 0, failAt)
    /\ FundReturns("FundSiacoinsForOutputs", b, calculateAmountFromOutputs(outputs, fee),
                   fundSiacoinsForOutputsWrites(wallet, builders[b], outputs, fee, failAt))

FundSiafundsWrites(b, amount, failAt) ==
    /\ CanFail(fundSiafunds(wallet, builders[b], amount), 0, failAt)
    /\ FundReturns("FundSiafunds", b, amount,
                   fundSiafundsWrites(wallet, builders[b], amount, failAt))

NextReserve ==
    \/ \E amount \in BuilderAmounts : \E failAt \in 0..MaxWrites :
          FundSiacoinsWrites("b1", amount, failAt)
    \/ \E r \in Requests : \E failAt \in 0..MaxWrites :
          FundSiacoinsForOutputsWrites("b1", r.outputs, r.fee, failAt)
    \/ \E amount \in ReserveSiafundAmounts : \E failAt \in 0..MaxWrites :
          FundSiafundsWrites("b1", amount, failAt)
    \/ ncalls < MaxReserveCalls /\ Drop("b1")
    \/ AdvanceHeight

SpecReserve == InitBuilder /\ [][NextReserve]_vars

\* The step is a call of one of the three Fund* operations.
FundCall ==
    /\ ncalls' = ncalls + 1
    /\ ret'.op \in {"FundSiacoins", "FundSiacoinsForOutputs", "FundSiafunds"}

\* C31: the reservations of a Fund* are all-or-nothing: when FundSiacoins,
\* FundSiacoinsForOutputs or FundSiafunds returns an error, a failure of one
\* dbPutSpentOutput write after an earlier one succeeded included, the
\* recently-spent table is what it was before the call.
C31_ReservationsAllOrNothing ==
    [][ (FundCall /\ ret'.err # nil) => wallet'.spentOutputs = wallet.spentOutputs ]_vars

\* What holds: a Fund* that fails before its first write (ErrLowBalance,
\* ErrIncompleteTransactions) leaves the table alone, and one that fails on a
\* write keeps every entry of ids it did not write and gives the ids it
\* wrote the current height.
C31_FailedWritesKeepPrefix ==
    [][ (FundCall /\ ret'.err # nil) =>
            /\ ret'.err # errDatabase => wallet'.spentOutputs = wallet.spentOutputs
            /\ DOMAIN wallet.spentOutputs \subseteq DOMAIN wallet'.spentOutputs
            /\ \A id \in DOMAIN wallet'.spentOutputs :
                   \/ /\ id \in DOMAIN wallet.spentOutputs
                      /\ wallet'.spentOutputs[id] = wallet.spentOutputs[id]
                   \/ wallet'.spentOutputs[id] = wallet.height ]_vars
====
